---- MODULE Spec2Model ----
(***************************************************************************)
(* A model of the 3DTracking integration (custom_components/g4smobility):  *)
(* the API client's session lifecycle (api.py) and the setup and poll      *)
(* functions that drive it (__init__.py), under the specifications Spec    *)
(* and SpecOverlap; and, each under a specification of its own,            *)
(*   SpecLookup     _get_value_from_path (sensor.py),                      *)
(*   SpecIndicator  the indicator items of G4SMobility.get_units,          *)
(*   SpecUnits      G4SMobility.get_units and self.units (g4smobility.py), *)
(*   SpecIo         the naming of binary sensors (binary_sensor.py),       *)
(*   SpecFlow       async_step_user (config_flow.py),                      *)
(*   SpecLogin      the construction of G4SMobility and parse_options,     *)
(*   SpecOptions    the options flow and the scan interval of the setup,   *)
(*   SpecTracker    ThreeDTrackingVehicleTracker (device_tracker.py),      *)
(*   SpecBinarySensors  the binary sensors of a unit and their updates,    *)
(*   SpecDynamicSensor  ThreeDTrackingDynamicSensor (sensor.py).           *)
(* A component that a specification does not run keeps its idle value.     *)
(*                                                                         *)
(* Time is counted in minutes.  Strings whose content the code inspects    *)
(* (the Status.Message of a response) are sequences of one-character       *)
(* strings; None and an absent JSON key are the strings None and Missing.  *)
(***************************************************************************)
EXTENDS Integers, Sequences, FiniteSets, TLC

VARIABLES
    user_id_guid,     \* ThreeDTrackingApiClient._user_id_guid
    session_id,       \* ThreeDTrackingApiClient._session_id
    session_expires,  \* ThreeDTrackingApiClient._session_expires: {} is None, {t} a datetime
    now,              \* datetime.now(), in minutes
    ticks,            \* how often the clock has advanced
    polls,            \* how many scheduled polls have started
    overlap,          \* whether polls may overlap (fixed by the specification)
    calls,            \* per task: the async_update_data call it runs or ran last
    lastAuth,         \* the last async_authenticate that ended: its response and what it raised
    validSince,       \* {t}: async_authenticate returned normally at t and nothing invalidated the session since
    lastEnded,        \* how the async_get_latest_positions call that ended last ended
    setupPc,          \* where async_setup_entry stands
    setupRaised,      \* what async_setup_entry raised
    httpOpen,         \* the aiohttp.ClientSession is created and not closed
    hassStored,       \* hass.data[DOMAIN][entry_id] is set
    forwarded,        \* async_forward_entry_setups was called
    lookup,           \* one call of _get_value_from_path: its arguments and its result
    indicator,        \* one indicator item of get_units: the li, the item recorded, the chain re-run
    g4s,              \* a G4SMobility object, the mappings it created, and its last get_units call
    io,               \* one IO item of a unit and the binary sensor created for it
    flow,             \* the config flow: where async_step_user stands and what it answered
    login,            \* the construction of a G4SMobility object: the login response and self.options
    optflow,          \* the options flow: entry.options, its last submission, the interval of the last setup
    tracker,          \* a ThreeDTrackingVehicleTracker and the coordinator data it follows
    sensors,          \* the binary sensors of one unit and the InputOutputs list they follow
    dynsensor         \* a ThreeDTrackingDynamicSensor and the reading it found last

\* the variables of the components other than the API client and the setup
otherVars == <<lookup, indicator, g4s, io, flow, login, optflow, tracker, sensors, dynsensor>>

\* the variables of the API client and the setup
coreVars == <<user_id_guid, session_id, session_expires, now, ticks, polls, overlap,
              calls, lastAuth, validSince, lastEnded, setupPc, setupRaised,
              httpOpen, hassStored, forwarded>>

vars == <<coreVars, otherVars>>

clientVars == <<user_id_guid, session_id, session_expires>>
setupVars == <<setupPc, setupRaised, httpOpen, hassStored, forwarded>>

(***************************************************************************)
(* Bounds of the model.                                                    *)
(***************************************************************************)
MaxTicks == 3
MaxPolls == 3
\* the same two, when calls of one client may overlap
MaxOverlapTicks == 2
MaxOverlapPolls == 2

Tasks == {1, 2}

(***************************************************************************)
(* Values.                                                                 *)
(***************************************************************************)
None == "None"
Missing == "Missing"

\* timedelta(hours=23, minutes=50), in minutes
SessionValidity == 1430

\* The clock advances by a minute or by one minute less than the validity,
\* so that the instants just before, at and after an expiry all occur.
ClockSteps == {1, SessionValidity - 1}

(***************************************************************************)
(* str.lower() and the substring test of the `in` operator.                *)
(***************************************************************************)
LowerChar(c) ==
    CASE c = "A" -> "a" [] c = "B" -> "b" [] c = "C" -> "c" [] c = "D" -> "d"
      [] c = "E" -> "e" [] c = "F" -> "f" [] c = "G" -> "g" [] c = "H" -> "h"
      [] c = "I" -> "i" [] c = "J" -> "j" [] c = "K" -> "k" [] c = "L" -> "l"
      [] c = "M" -> "m" [] c = "N" -> "n" [] c = "O" -> "o" [] c = "P" -> "p"
      [] c = "Q" -> "q" [] c = "R" -> "r" [] c = "S" -> "s" [] c = "T" -> "t"
      [] c = "U" -> "u" [] c = "V" -> "v" [] c = "W" -> "w" [] c = "X" -> "x"
      [] c = "Y" -> "y" [] c = "Z" -> "z" [] OTHER -> c

\* the message compared as it came, without lower()
StrLowerOmitted(s) == s

StrLower(s) == [i \in 1..Len(s) |-> LowerChar(s[i])]

StrIn(sub, s) ==
    \E i \in 1..(Len(s) - Len(sub) + 1) : SubSeq(s, i, i + Len(sub) - 1) = sub

WordSession == <<"s","e","s","s","i","o","n">>
WordAuthentication == <<"a","u","t","h","e","n","t","i","c","a","t","i","o","n">>

\* Status.Message texts the vendor may send
MsgSessionExpired == <<"S","e","s","s","i","o","n"," ","e","x","p","i","r","e","d">>
MsgInvalidSession == <<"I","n","v","a","l","i","d"," ","S","E","S","S","I","O","N">>
MsgAuthRequired ==
    <<"A","u","t","h","e","n","t","i","c","a","t","i","o","n"," ","r","e","q","u","i","r","e","d">>
MsgUnitNotFound == <<"U","n","i","t"," ","n","o","t"," ","f","o","u","n","d">>
\* the default of data.get("Status", {}).get("Message", ...)
MsgUnknownPositionsError ==
    <<"U","n","k","n","o","w","n"," ","e","r","r","o","r"," ","g","e","t","t","i","n","g",
      " ","p","o","s","i","t","i","o","n","s">>
NoMessage == <<>>

(***************************************************************************)
(* The exception classes and Python's except-clause matching.              *)
(***************************************************************************)
\* the class itself and its base classes (api.py lines 13-17, aiohttp, asyncio)
Bases(exc) ==
    CASE exc = "ThreeDTrackingAuthError" ->
            {"ThreeDTrackingAuthError", "ThreeDTrackingApiClientError", "Exception"}
      [] exc = "ThreeDTrackingApiClientError" -> {"ThreeDTrackingApiClientError", "Exception"}
      [] exc = "ClientError" -> {"ClientError", "Exception"}
      [] exc = "TimeoutError" -> {"TimeoutError", "Exception"}
      [] exc = "ValueError" -> {"ValueError", "Exception"}
      [] exc = "UpdateFailed" -> {"UpdateFailed", "Exception"}
      [] exc = "ConfigEntryNotReady" -> {"ConfigEntryNotReady", "Exception"}
      [] exc = "AbortFlow" -> {"AbortFlow", "Exception"}
      [] exc = "KeyError" -> {"KeyError", "Exception"}
      [] OTHER -> {exc}

\* `except (classes)` catches exc
Catches(classes, exc) == exc # None /\ Bases(exc) \cap classes # {}

(***************************************************************************)
(* The vendor's answers to the authentication request.                     *)
(***************************************************************************)
AuthJson(status, hasResult, u, s) ==
    [kind |-> "json", status |-> status, hasResult |-> hasResult,
     UserIdGuid |-> u, SessionId |-> s]

AuthFailure(kind) ==
    [kind |-> kind, status |-> Missing, hasResult |-> FALSE,
     UserIdGuid |-> Missing, SessionId |-> Missing]

AuthResponses ==
    { AuthJson("ok", TRUE, "U1", "S1"), AuthJson("ok", TRUE, "U2", "S2"),
      AuthJson("ok", TRUE, "U1", Missing), AuthJson("ok", TRUE, Missing, "S2"),
      AuthJson("ok", TRUE, Missing, Missing),      \* "Result": {}
      AuthJson("ok", FALSE, Missing, Missing),     \* no "Result"
      AuthJson("error", FALSE, Missing, Missing),  \* credentials rejected
      AuthJson(Missing, FALSE, Missing, Missing) } \* no "Status"
    \cup { AuthFailure(k) : k \in {"http_error", "client_error", "timeout", "bad_json"} }

\* dict.get(key): None for an absent key
Get(v) == IF v = Missing THEN None ELSE v

\* `not result` for data.get("Result"): None or an empty dict
ResultFalsy(resp) ==
    \/ ~resp.hasResult
    \/ resp.UserIdGuid = Missing /\ resp.SessionId = Missing

(***************************************************************************)
(* ThreeDTrackingApiClient.async_authenticate                              *)
(***************************************************************************)
\* what the body of the try statement raises (None: nothing)
AuthBodyRaises(resp) ==
    CASE resp.kind = "timeout" -> "TimeoutError"
      [] resp.kind = "client_error" -> "ClientError"
      [] resp.kind = "http_error" -> "ClientError"      \* raise_for_status()
      [] resp.kind = "bad_json" -> "ValueError"         \* response.json()
      [] OTHER ->
            IF Get(resp.status) # "ok" THEN "ThreeDTrackingAuthError"
            ELSE IF ResultFalsy(resp) THEN "ThreeDTrackingAuthError"
            ELSE None

\* what async_authenticate raises to its caller: the except clauses of the try
AuthRaises(resp) ==
    LET inner == AuthBodyRaises(resp) IN
    IF inner = None THEN None
    ELSE IF Catches({"ClientError", "TimeoutError"}, inner) THEN "ThreeDTrackingApiClientError"
    ELSE IF Catches({"Exception"}, inner) THEN "ThreeDTrackingApiClientError"
    ELSE inner

\* the same, with the session id cleared when the authentication fails
AuthFieldsClearsOnFailure(resp, t) ==
    IF AuthBodyRaises(resp) = None
    THEN <<Get(resp.UserIdGuid), Get(resp.SessionId), {t + SessionValidity}>>
    ELSE <<user_id_guid, None, session_expires>>

\* the three fields after async_authenticate has processed resp at time t
AuthFields(resp, t) ==
    IF AuthBodyRaises(resp) = None
    THEN <<Get(resp.UserIdGuid), Get(resp.SessionId), {t + SessionValidity}>>
    ELSE <<user_id_guid, session_id, session_expires>>

(***************************************************************************)
(* ThreeDTrackingApiClient._ensure_authenticated                           *)
(***************************************************************************)
\* the expiry test written with > in place of >=
NeedsAuthenticationStrict ==
    \/ session_id = None
    \/ \E e \in session_expires : now > e

\* `not self._session_id or (self._session_expires and now >= self._session_expires)`
NeedsAuthentication ==
    \/ session_id = None
    \/ \E e \in session_expires : now >= e

(***************************************************************************)
(* The vendor's answers to the positions request.                          *)
(***************************************************************************)
ResultList(items) == [tag |-> "list", items |-> items]
ResultNull == [tag |-> "null", items |-> <<>>]
ResultMissing == [tag |-> "missing", items |-> <<>>]
NoneValue == [tag |-> "None", items |-> <<>>]

PosJson(status, message, result) ==
    [kind |-> "json", code |-> 200, status |-> status, message |-> message, result |-> result]

PosFailure(kind, code) ==
    [kind |-> kind, code |-> code, status |-> Missing, message |-> NoMessage,
     result |-> ResultMissing]

NoResponse == PosFailure("none", 0)

PositionsResponses ==
    { PosJson("ok", NoMessage, r) :
        r \in {ResultList(<<>>), ResultList(<<"A">>), ResultList(<<"A", "B">>),
               ResultList(<<"B", "A">>), ResultNull, ResultMissing} }
    \cup { PosJson("error", m, ResultMissing) :
        m \in {MsgSessionExpired, MsgInvalidSession, MsgAuthRequired, MsgUnitNotFound,
               NoMessage} }
    \cup { PosJson(Missing, NoMessage, ResultMissing) }
    \cup { PosFailure("http_error", c) : c \in {401, 403, 500} }
    \cup { PosFailure(k, 0) : k \in {"client_error", "timeout", "bad_json"} }

(***************************************************************************)
(* ThreeDTrackingApiClient.async_get_latest_positions                      *)
(***************************************************************************)
\* data.get("Status", {}).get("Message", "Unknown error getting positions")
ErrorMessage(resp) ==
    IF resp.message = NoMessage THEN MsgUnknownPositionsError ELSE resp.message

\* the response makes line 96 run: self._session_id = None
InvalidatesSession(resp) ==
    /\ resp.kind = "json"
    /\ Get(resp.status) # "ok"
    /\ \/ StrIn(WordSession, StrLower(ErrorMessage(resp)))
       \/ StrIn(WordAuthentication, StrLower(ErrorMessage(resp)))

\* what the body of the try statement raises (None: nothing)
PositionsBodyRaises(resp) ==
    CASE resp.kind = "timeout" -> "TimeoutError"
      [] resp.kind = "client_error" -> "ClientError"
      [] resp.kind = "http_error" -> "ClientError"      \* raise_for_status()
      [] resp.kind = "bad_json" -> "ValueError"         \* response.json()
      [] OTHER ->
            IF Get(resp.status) # "ok" THEN "ThreeDTrackingApiClientError" ELSE None

\* what async_get_latest_positions raises to its caller
PositionsRaises(resp) ==
    LET inner == PositionsBodyRaises(resp) IN
    IF inner = None THEN None
    ELSE IF Catches({"ClientError", "TimeoutError"}, inner) THEN "ThreeDTrackingApiClientError"
    ELSE IF Catches({"Exception"}, inner) THEN "ThreeDTrackingApiClientError"
    ELSE inner

\* the key misspelt, so that the default is always taken
PositionsReturnsDefault(resp) == ResultList(<<>>)

\* data.get("Result", [])
PositionsReturns(resp) ==
    CASE resp.result.tag = "missing" -> ResultList(<<>>)
      [] resp.result.tag = "null" -> NoneValue
      [] OTHER -> resp.result

(***************************************************************************)
(* async_update_data: the except clauses around the client call            *)
(***************************************************************************)
\* without the clauses for asyncio.TimeoutError and Exception
UpdateRaisesTwoClauses(exc) ==
    IF exc = None THEN None
    ELSE IF Catches({"ThreeDTrackingAuthError"}, exc) THEN "UpdateFailed"
    ELSE IF Catches({"ThreeDTrackingApiClientError", "ClientError"}, exc) THEN "UpdateFailed"
    ELSE exc

UpdateRaises(exc) ==
    IF exc = None THEN None
    ELSE IF Catches({"ThreeDTrackingAuthError"}, exc) THEN "UpdateFailed"
    ELSE IF Catches({"ThreeDTrackingApiClientError", "ClientError"}, exc) THEN "UpdateFailed"
    ELSE IF Catches({"TimeoutError"}, exc) THEN "UpdateFailed"
    ELSE IF Catches({"Exception"}, exc) THEN "UpdateFailed"
    ELSE exc

(***************************************************************************)
(* async_setup_entry: the except clauses around client.async_authenticate  *)
(***************************************************************************)
\* <<what is raised, whether session.close() ran>>
SetupAuthRaises(exc) ==
    IF exc = None THEN <<None, FALSE>>
    ELSE IF Catches({"ThreeDTrackingAuthError"}, exc) THEN <<"ConfigEntryNotReady", TRUE>>
    ELSE IF Catches({"ThreeDTrackingApiClientError", "ClientError"}, exc)
         THEN <<"ConfigEntryNotReady", TRUE>>
    ELSE IF Catches({"Exception"}, exc) THEN <<"ConfigEntryNotReady", TRUE>>
    ELSE <<exc, FALSE>>

(***************************************************************************)
(* The state of one async_update_data call, with the history of the call   *)
(* that the properties below speak about.                                  *)
(***************************************************************************)
\* pc: idle (not running; the other fields describe the call that ended),
\*     auth_wait (awaiting the authentication response),
\*     pos_wait (awaiting the positions response)
IdleCall ==
    [pc |-> "idle",
     stale |-> FALSE,      \* at the call: session id absent, or now at or past the stored expiry
     fresh |-> FALSE,      \* at the call: validSince = {t} and now < t + SessionValidity
     expired |-> FALSE,    \* at the call: validSince = {t} and now >= t + SessionValidity
     after |-> "none",     \* lastEnded at the call
     nAuth |-> 0,          \* authentication requests the call issued
     auth |-> "none",      \* its async_authenticate: none, pending, returned, raised
     nPos |-> 0,           \* positions requests the call issued
     reqUser |-> None,     \* UserIdGuid of its positions request
     reqSession |-> None,  \* SessionId of its positions request
     raised |-> None,      \* what reached the except clauses of async_update_data
     out |-> None,         \* returned, or what async_update_data raised
     resp |-> NoResponse,  \* the positions response it received
     ret |-> NoneValue]    \* what async_get_latest_positions returned

NoAuth == [resp |-> AuthFailure("none"), raised |-> None]

\* the client and the setup after construction; o: whether polls may overlap
ClientStart(o) ==
    /\ user_id_guid = None
    /\ session_id = None
    /\ session_expires = {}
    /\ now = 0
    /\ ticks = 0
    /\ polls = 0
    /\ overlap = o
    /\ calls = [t \in Tasks |-> IdleCall]
    /\ lastAuth = NoAuth
    /\ validSince = {}
    /\ lastEnded = "none"
    /\ setupPc = "init"
    /\ setupRaised = None
    /\ httpOpen = FALSE
    /\ hassStored = FALSE
    /\ forwarded = FALSE

(***************************************************************************)
(* The other components before anything has called them.                   *)
(***************************************************************************)
\* a Python value: kind is dict, str, null (None) or absent (no such key);
\* the items of a dict map every key to a value, absent for the keys it lacks
PyNone == [kind |-> "null", items |-> <<>>]
PyStr == [kind |-> "str", items |-> <<>>]
Absent == [kind |-> "absent", items |-> <<>>]

\* what a function returned (raised = None) or raised
Returned(v) == [raised |-> None, value |-> v]
Raised(exc) == [raised |-> exc, value |-> PyNone]

LookupIdle == [pc |-> "none", data_dict |-> PyNone, path |-> <<>>, ret |-> Returned(PyNone)]

\* no indicator item is recorded
NoItem == [recorded |-> FALSE, active |-> None, title |-> <<>>]

IndicatorIdle ==
    [pc |-> "none", li |-> [title |-> <<>>, classes |-> <<>>], item |-> NoItem, again |-> <<>>]

\* a unit id without a record in a mapping, and the mapping without records
NoUnit == [known |-> FALSE, available |-> FALSE, last_sent |-> 0, lat |-> 0]
UnitIds == {1, 2}
NoUnits == [u \in UnitIds |-> NoUnit]

\* a unit id that the response does not list, and the response that lists none
NotListed == [kind |-> "absent", age |-> 0]
NoUnitsResponse == [u \in UnitIds |-> NotListed]

\* no get_units call has ended
NoPoll ==
    [remember |-> FALSE, net |-> [first |-> "none", auth |-> "none", second |-> "none"],
     resp |-> NoUnitsResponse, out |-> None, nReq |-> 0, nAuth |-> 0, at |-> 0]

\* pc: none (no object), idle, waiting (a get_units call awaits its first response)
\* heap: the mappings created so far; units: which of them self.units is;
\* handed: which of them callers hold; options: self.options, empty or full
G4SIdle ==
    [pc |-> "none", heap |-> <<NoUnits>>, units |-> 1, handed |-> {}, options |-> "empty",
     calls |-> 0, now |-> 0, remember |-> FALSE, silent |-> FALSE, last |-> NoPoll]

\* a key that the IO item lacks
NoField == [has |-> FALSE, text |-> <<>>]

IoIdle ==
    [pc |-> "none",
     io_item |-> [SystemName |-> NoField, Description |-> NoField, UserDescription |-> NoField],
     created |-> FALSE, name |-> <<>>, device_class |-> None]

\* pc: none (no flow), form (the user form is shown), auth_wait (async_step_user
\* awaits async_authenticate), created (async_create_entry returned),
\* raised (an exception left async_step_user)
FlowIdle ==
    [pc |-> "none", errors |-> None, sessionOpen |-> FALSE, configured |-> FALSE,
     submits |-> 0, resp |-> AuthFailure("none"), raised |-> None, left |-> None]

\* self.options = {}: which keys are set, and the offset of the timezone stored
NoOptions ==
    [user |-> FALSE, speed_sign |-> FALSE, temp_sign |-> FALSE,
     timezone |-> [has |-> FALSE, minutes |-> 0], dateformat |-> FALSE]

NoLoginResponse ==
    [post |-> "none", json |-> FALSE, id |-> FALSE, prefs |-> [has |-> FALSE, items |-> <<>>]]

\* pc: none (no object), new (G4SMobility is about to be constructed),
\* built (the constructor has ended: it returned or raised);
\* authenticated: what user_authentication returned
LoginIdle ==
    [pc |-> "none", resp |-> NoLoginResponse, options |-> NoOptions,
     authenticated |-> None, raised |-> None]

\* entry.options without a scan_interval
NoScanInterval == [has |-> FALSE, seconds |-> 0]

\* no options form submitted yet
NoSubmit ==
    [value |-> 0, before |-> [scan_interval |-> NoScanInterval, other |-> FALSE],
     outcome |-> "none", data |-> [scan_interval |-> NoScanInterval, other |-> FALSE],
     errors |-> None]

\* options: entry.options (its scan_interval, and whether it holds another key);
\* pc: none (no flow), form (the options form is shown), created
\* (async_create_entry returned); last: the last submission and its result;
\* interval: the update_interval of the coordinator of the last setup, {} before it
OptFlowIdle ==
    [pc |-> "none", options |-> [scan_interval |-> NoScanInterval, other |-> FALSE],
     submits |-> 0, last |-> NoSubmit, interval |-> {}]

\* uid: self._unit_uid; at: self._latitude and self._longitude ({} is None, {p}
\* the coordinates of place p); data: coordinator.data; found: whether the last
\* update found the unit in the snapshot; updates: the coordinator updates so far
TrackerIdle ==
    [pc |-> "none", uid |-> 0, at |-> {}, data |-> <<>>, found |-> FALSE, updates |-> 0]

\* pc: none, setup (the platform is about to be set up), added (the entities
\* are created); setup: the InputOutputs list of the unit at the setup;
\* entities: the binary sensors created from it; data: the InputOutputs list of
\* the last snapshot; updated: a coordinator update has been handled
BinarySensorsIdle ==
    [pc |-> "none", setup |-> <<>>, entities |-> <<>>, data |-> <<>>, updated |-> FALSE]

\* device_class, unit (_attr_native_unit_of_measurement: a key that is not set
\* is None), available, value (the kind of _attr_native_value), reading: the
\* reading found at the last update; updates: the coordinator updates so far
DynamicSensorIdle ==
    [pc |-> "none", sensor_type |-> "", device_class |-> None, unit |-> NoField,
     available |-> FALSE, value |-> None,
     reading |-> [found |-> FALSE, Value |-> "num", MeasurementSign |-> NoField],
     updates |-> 0]

OthersIdle ==
    /\ lookup = LookupIdle
    /\ indicator = IndicatorIdle
    /\ g4s = G4SIdle
    /\ io = IoIdle
    /\ flow = FlowIdle
    /\ login = LoginIdle
    /\ optflow = OptFlowIdle
    /\ tracker = TrackerIdle
    /\ sensors = BinarySensorsIdle
    /\ dynsensor = DynamicSensorIdle

Init == ClientStart(FALSE) /\ OthersIdle

\* the same, with overlapping calls of one client allowed
InitOverlap == ClientStart(TRUE) /\ OthersIdle

(***************************************************************************)
(* The clock.                                                              *)
(***************************************************************************)
Tick(d) ==
    /\ UNCHANGED otherVars
    /\ ticks < (IF overlap THEN MaxOverlapTicks ELSE MaxTicks)
    /\ now' = now + d
    /\ ticks' = ticks + 1
    /\ UNCHANGED <<clientVars, polls, overlap, calls, lastAuth, validSince, lastEnded,
                   setupVars>>

(***************************************************************************)
(* async_setup_entry, up to the first refresh                              *)
(***************************************************************************)
\* lines 39-43: the session and the client are created, the request is sent
SetupBegin ==
    /\ UNCHANGED otherVars
    /\ setupPc = "init"
    /\ setupPc' = "auth_wait"
    /\ httpOpen' = TRUE
    /\ UNCHANGED <<clientVars, now, ticks, polls, overlap, calls, lastAuth, validSince,
                   lastEnded, setupRaised, hassStored, forwarded>>

\* lines 43-55: client.async_authenticate() ends
SetupAuthResponse(resp) ==
    /\ UNCHANGED otherVars
    /\ setupPc = "auth_wait"
    /\ LET raised == AuthRaises(resp)
           fields == AuthFields(resp, now)
           r == SetupAuthRaises(raised)
       IN /\ user_id_guid' = fields[1]
          /\ session_id' = fields[2]
          /\ session_expires' = fields[3]
          /\ lastAuth' = [resp |-> resp, raised |-> raised]
          /\ validSince' = IF raised = None THEN {now} ELSE validSince
          /\ setupPc' = IF r[1] = None THEN "first_refresh" ELSE "not_ready"
          /\ setupRaised' = r[1]
          /\ httpOpen' = (httpOpen /\ ~r[2])
    /\ UNCHANGED <<now, ticks, polls, overlap, calls, lastEnded, hassStored, forwarded>>

\* lines 84-99: what follows the first refresh, which ended with `out` and `ret`.
\* DataUpdateCoordinator.async_config_entry_first_refresh raises
\* ConfigEntryNotReady itself when the refresh failed, so lines 85-99 run only
\* after a refresh that succeeded.
\* <<setupPc, setupRaised, httpOpen, hassStored, forwarded>>
AfterFirstRefresh(out, ret) ==
    IF out # "returned"
    THEN <<"not_ready", "ConfigEntryNotReady", httpOpen, hassStored, forwarded>>
    ELSE IF ret = NoneValue
    THEN <<"not_ready", "ConfigEntryNotReady", FALSE, hassStored, forwarded>>
    ELSE <<"loaded", None, httpOpen, TRUE, TRUE>>

\* the setup variables when a call that ended with `out` and `ret` ends
SetupAfterCall(out, ret) ==
    LET s == IF setupPc = "refreshing" THEN AfterFirstRefresh(out, ret)
             ELSE <<setupPc, setupRaised, httpOpen, hassStored, forwarded>>
    IN /\ setupPc' = s[1]
       /\ setupRaised' = s[2]
       /\ httpOpen' = s[3]
       /\ hassStored' = s[4]
       /\ forwarded' = s[5]

(***************************************************************************)
(* async_update_data -> client.async_get_latest_positions                  *)
(***************************************************************************)
\* the positions request of task t is sent with the client's fields u and s
SendPositions(c, u, s) ==
    [c EXCEPT !.pc = "pos_wait", !.nPos = c.nPos + 1, !.reqUser = u, !.reqSession = s]

\* lines 58-62 and 73-87: the call starts, runs _ensure_authenticated and
\* sends either the authentication request or the positions request
StartCall(t) ==
    /\ calls[t].pc = "idle"
    /\ LET c == [IdleCall EXCEPT
                    !.stale = (session_id = None \/ \E e \in session_expires : now >= e),
                    !.fresh = (\E a \in validSince : now < a + SessionValidity),
                    !.expired = (\E a \in validSince : now >= a + SessionValidity),
                    !.after = lastEnded]
       IN calls' = [calls EXCEPT ![t] =
                       IF NeedsAuthentication
                       THEN [c EXCEPT !.pc = "auth_wait", !.nAuth = 1, !.auth = "pending"]
                       ELSE SendPositions(c, user_id_guid, session_id)]
    /\ UNCHANGED <<clientVars, now, ticks, overlap, lastAuth, validSince, lastEnded,
                   setupRaised, httpOpen, hassStored, forwarded>>

\* line 84: coordinator.async_config_entry_first_refresh()
FirstRefresh ==
    /\ UNCHANGED otherVars
    /\ setupPc = "first_refresh"
    /\ setupPc' = "refreshing"
    /\ StartCall(1)
    /\ UNCHANGED polls

\* a poll the coordinator schedules after setup
ScheduledPoll(t) ==
    /\ UNCHANGED otherVars
    /\ setupPc = "loaded"
    /\ polls < (IF overlap THEN MaxOverlapPolls ELSE MaxPolls)
    \* the coordinator runs its polls one after the other, in one task
    /\ overlap \/ t = 1
    /\ polls' = polls + 1
    /\ StartCall(t)
    /\ UNCHANGED setupPc

\* the call of task t ends: async_update_data returns or raises
EndCall(c, raised, ret, resp) ==
    [c EXCEPT !.pc = "idle", !.raised = raised,
              !.out = IF raised = None THEN "returned" ELSE UpdateRaises(raised),
              !.ret = ret, !.resp = resp]

\* api.py lines 40-64, then lines 77-87 or the exception's way out
AuthResponse(t, resp) ==
    /\ UNCHANGED otherVars
    /\ calls[t].pc = "auth_wait"
    /\ LET raised == AuthRaises(resp)
           fields == AuthFields(resp, now)
           c == [calls[t] EXCEPT !.auth = IF raised = None THEN "returned" ELSE "raised"]
           d == IF raised = None THEN SendPositions(c, fields[1], fields[2])
                ELSE EndCall(c, raised, NoneValue, NoResponse)
       IN /\ user_id_guid' = fields[1]
          /\ session_id' = fields[2]
          /\ session_expires' = fields[3]
          /\ lastAuth' = [resp |-> resp, raised |-> raised]
          /\ validSince' = IF raised = None THEN {now} ELSE validSince
          /\ calls' = [calls EXCEPT ![t] = d]
          /\ IF raised = None
             THEN UNCHANGED <<lastEnded, setupVars>>
             ELSE /\ lastEnded' = "auth_failed"
                  /\ SetupAfterCall(d.out, d.ret)
    /\ UNCHANGED <<now, ticks, polls, overlap>>

\* The positions responses that report a session or authentication problem:
\* in the Status.Message of the JSON envelope, or by the HTTP status code.
SessionMessages == {MsgSessionExpired, MsgInvalidSession, MsgAuthRequired}

IsSessionError(resp) ==
    resp.kind = "json" /\ resp.status = "error" /\ resp.message \in SessionMessages

IsHttpAuthError(resp) == resp.kind = "http_error" /\ resp.code \in {401, 403}

\* what the vendor answered to the call that ended last, for lastEnded
EndedHow(resp) ==
    IF resp.kind = "json" /\ resp.status = "ok" THEN "returned"
    ELSE IF IsSessionError(resp) THEN "session_error"
    ELSE IF IsHttpAuthError(resp) THEN "http_auth_error"
    ELSE "failed"

\* api.py lines 87-106
PositionsResponse(t, resp) ==
    /\ UNCHANGED otherVars
    /\ calls[t].pc = "pos_wait"
    /\ LET raised == PositionsRaises(resp)
           ret == IF raised = None THEN PositionsReturns(resp) ELSE NoneValue
           d == EndCall(calls[t], raised, ret, resp)
       IN /\ session_id' = IF InvalidatesSession(resp) THEN None ELSE session_id
          /\ validSince' = IF InvalidatesSession(resp) THEN {} ELSE validSince
          /\ calls' = [calls EXCEPT ![t] = d]
          /\ lastEnded' = EndedHow(resp)
          /\ SetupAfterCall(d.out, d.ret)
    /\ UNCHANGED <<user_id_guid, session_expires, now, ticks, polls, overlap, lastAuth>>

\* __init__.py line 61: the 30 seconds of async_timeout.timeout(30) pass
\* while the client awaits a response
OuterTimeout(t) ==
    /\ UNCHANGED otherVars
    /\ calls[t].pc \in {"auth_wait", "pos_wait"}
    /\ LET d == EndCall(calls[t], "TimeoutError", NoneValue, NoResponse)
       IN /\ calls' = [calls EXCEPT ![t] = d]
          /\ SetupAfterCall(d.out, d.ret)
    /\ lastEnded' = "timeout"
    /\ UNCHANGED <<clientVars, now, ticks, polls, overlap, lastAuth, validSince>>

Next ==
    \/ \E d \in ClockSteps : Tick(d)
    \/ SetupBegin
    \/ \E resp \in AuthResponses : SetupAuthResponse(resp)
    \/ FirstRefresh
    \/ \E t \in Tasks : ScheduledPoll(t)
    \/ \E t \in Tasks : \E resp \in AuthResponses : AuthResponse(t, resp)
    \/ \E t \in Tasks : \E resp \in PositionsResponses : PositionsResponse(t, resp)
    \/ \E t \in Tasks : OuterTimeout(t)

Spec == Init /\ [][Next]_vars

SpecOverlap == InitOverlap /\ [][Next]_vars

TypeOK ==
    /\ session_id \in {None, "S1", "S2"}
    /\ user_id_guid \in {None, "U1", "U2"}
    /\ Cardinality(session_expires) <= 1
    /\ \A t \in Tasks : calls[t].pc \in {"idle", "auth_wait", "pos_wait"}

(***************************************************************************)
(* C1.  A call to async_get_latest_positions made while the session id is  *)
(* absent, or while the time is at or past the stored expiry, authenticates *)
(* before it issues its positions request: while its authentication is     *)
(* pending no positions request is out, and when the authentication raised *)
(* the call issued no positions request at all.                            *)
(***************************************************************************)
C1_AuthenticatesBeforeRequest ==
    \A t \in Tasks :
        calls[t].stale =>
            /\ calls[t].auth # "none"
            /\ calls[t].nAuth = 1
            /\ calls[t].auth \in {"pending", "raised"} => calls[t].nPos = 0

\* a call made at or past the expiry of a session it held has authenticated
\* and issued its positions request
C1_Witness ==
    \E t \in Tasks :
        /\ calls[t].stale /\ calls[t].expired
        /\ calls[t].auth = "returned" /\ calls[t].nPos = 1

(***************************************************************************)
(* C2.  After an async_authenticate that returned normally at time a, with *)
(* no session invalidation since, a call to async_get_latest_positions     *)
(* made before a + 23h50m issues no authentication request, and a call     *)
(* made at or after a + 23h50m issues exactly one.                         *)
(***************************************************************************)
C2_NoAuthenticationBeforeExpiry ==
    \A t \in Tasks :
        /\ calls[t].fresh => calls[t].nAuth = 0
        /\ calls[t].expired => calls[t].nAuth = 1

(***************************************************************************)
(* C3.  After an authentication response with Status.Result = "ok",        *)
(* UserIdGuid = U and SessionId = S, the positions request carries U and  *)
(* S; and a positions response with Status.Result = "ok" and a Result list *)
(* makes async_get_latest_positions return that list.                      *)
(***************************************************************************)
HasUserAndSession(resp) ==
    /\ resp.kind = "json" /\ resp.status = "ok" /\ resp.hasResult
    /\ resp.UserIdGuid # Missing /\ resp.SessionId # Missing

C3_RequestCarriesSessionAndResultVerbatim ==
    \A t \in Tasks :
        /\ (calls[t].nPos = 1 /\ HasUserAndSession(lastAuth.resp)) =>
              /\ calls[t].reqUser = lastAuth.resp.UserIdGuid
              /\ calls[t].reqSession = lastAuth.resp.SessionId
        /\ (/\ calls[t].pc = "idle"
            /\ calls[t].resp.kind = "json" /\ calls[t].resp.status = "ok"
            /\ calls[t].resp.result.tag = "list") =>
              /\ calls[t].out = "returned"
              /\ calls[t].ret = calls[t].resp.result

\* a call that re-authenticated sent the new pair and returned a list of two units
C3_Witness ==
    \E t \in Tasks :
        /\ calls[t].pc = "idle" /\ calls[t].after # "none" /\ calls[t].auth = "returned"
        /\ HasUserAndSession(lastAuth.resp)
        /\ calls[t].reqUser = "U2" /\ calls[t].reqSession = "S2"
        /\ calls[t].ret = ResultList(<<"B", "A">>)

(***************************************************************************)
(* C4.  A positions response with Status.Result other than "ok" and a      *)
(* message containing "session" or "authentication" (in any case) clears   *)
(* the session id and makes the call raise ThreeDTrackingApiClientError,   *)
(* and the call that follows authenticates before its positions request.   *)
(***************************************************************************)
C4_SessionErrorForcesReauthentication ==
    \A t \in Tasks :
        /\ (calls[t].pc = "idle" /\ IsSessionError(calls[t].resp)) =>
              /\ session_id = None
              /\ calls[t].raised = "ThreeDTrackingApiClientError"
        /\ calls[t].after = "session_error" =>
              /\ calls[t].nAuth = 1
              /\ calls[t].auth \in {"pending", "raised"} => calls[t].nPos = 0

\* the call after a session error authenticated and then sent its request
C4_Witness ==
    \E t \in Tasks :
        /\ calls[t].after = "session_error"
        /\ calls[t].auth = "returned" /\ calls[t].nPos = 1

(***************************************************************************)
(* C5.  A positions response with HTTP status 401 or 403 invalidates the   *)
(* stored session, so that the next call re-authenticates, and the call    *)
(* raises ThreeDTrackingApiClientError.                                    *)
(***************************************************************************)
C5_HttpAuthErrorInvalidatesSession ==
    \A t \in Tasks :
        /\ (calls[t].pc = "idle" /\ IsHttpAuthError(calls[t].resp)) =>
              /\ session_id = None
              /\ calls[t].raised = "ThreeDTrackingApiClientError"
        /\ calls[t].after = "http_auth_error" => calls[t].nAuth = 1

(***************************************************************************)
(* C6.  When the authentication response has Status.Result other than      *)
(* "ok", async_authenticate raises ThreeDTrackingAuthError, which is not   *)
(* what it raises for a network failure or a timeout.                      *)
(***************************************************************************)
C6_RejectedCredentialsRaiseAuthError ==
    (lastAuth.resp.kind = "json" /\ lastAuth.resp.status = "error") =>
        /\ lastAuth.raised = "ThreeDTrackingAuthError"
        /\ lastAuth.raised # AuthRaises(AuthFailure("client_error"))
        /\ lastAuth.raised # AuthRaises(AuthFailure("timeout"))

(***************************************************************************)
(* C7.  When the authentication response has Status.Result = "ok" but     *)
(* lacks Result, Result.UserIdGuid or Result.SessionId, async_authenticate *)
(* raises, and the client does not hold a session afterwards.             *)
(***************************************************************************)
LacksField(resp) ==
    /\ resp.kind = "json" /\ resp.status = "ok"
    /\ ~resp.hasResult \/ resp.UserIdGuid = Missing \/ resp.SessionId = Missing

HoldsSession == session_id # None /\ \A e \in session_expires : now < e

C7_MalformedResponseIsAuthError ==
    LacksField(lastAuth.resp) => (lastAuth.raised # None /\ ~HoldsSession)

(***************************************************************************)
(* C8.  At most one authentication of a client is in flight at any time.   *)
(***************************************************************************)
C8_AtMostOneAuthenticationInFlight ==
    Cardinality({t \in Tasks : calls[t].pc = "auth_wait"}) <= 1

(***************************************************************************)
(* C9.  async_update_data returns or raises UpdateFailed, whatever reached *)
(* its except clauses; and after a failed poll the coordinator's next poll *)
(* can start.                                                              *)
(***************************************************************************)
C9_EveryFailureBecomesUpdateFailed ==
    \A t \in Tasks :
        /\ calls[t].out \in {None, "returned", "UpdateFailed"}
        /\ calls[t].raised # None => calls[t].out = "UpdateFailed"
        /\ (/\ calls[t].out = "UpdateFailed" /\ setupPc = "loaded"
            /\ polls < MaxPolls /\ ~overlap) => ENABLED ScheduledPoll(1)

\* a poll that followed a failed poll returned data
C9_Witness ==
    \E t \in Tasks :
        /\ calls[t].after \in {"session_error", "http_auth_error", "failed", "timeout",
                              "auth_failed"}
        /\ calls[t].out = "returned"
        /\ calls[t].ret = ResultList(<<"A">>)

(***************************************************************************)
(* C10.  When async_setup_entry does not complete, it has raised           *)
(* ConfigEntryNotReady, closed the HTTP session it created, stored nothing *)
(* under hass.data and forwarded no platform setup.                        *)
(***************************************************************************)
C10_FailedSetupLeavesNothingBehind ==
    setupPc = "not_ready" =>
        /\ setupRaised = "ConfigEntryNotReady"
        /\ ~httpOpen
        /\ ~hassStored
        /\ ~forwarded

(***************************************************************************)
(* sensor.py: _get_value_from_path(data_dict, path)                        *)
(***************************************************************************)
\* the deepest nesting of the dicts drawn, which is also the longest path looked up
MaxDepth == 2

PathKeys == {"Position", "Speed"}

PyDict(items) == [kind |-> "dict", items |-> items]

\* the dicts nested at most d deep whose keys are among PathKeys
RECURSIVE Dicts(_)
Dicts(d) ==
    IF d = 0 THEN {PyDict([k \in PathKeys |-> Absent])}
    ELSE {PyDict(items) : items \in [PathKeys -> {Absent, PyNone, PyStr} \cup Dicts(d - 1)]}

RECURSIVE PathsOfLen(_)
PathsOfLen(n) ==
    IF n = 0 THEN {<<>>}
    ELSE {Append(p, k) : p \in PathsOfLen(n - 1), k \in PathKeys}

Paths == UNION {PathsOfLen(n) : n \in 0..MaxDepth}

\* `key in current_val`
HasKey(current_val, key) == current_val.items[key].kind # "absent"

\* the loop written as current_val = current_val[key], with no test before it
RECURSIVE WalkUnchecked(_, _, _)
WalkUnchecked(current_val, path, i) ==
    IF i > Len(path) THEN Returned(current_val)
    ELSE IF current_val.kind # "dict" THEN Raised("TypeError")
    ELSE IF ~HasKey(current_val, path[i]) THEN Raised("KeyError")
    ELSE WalkUnchecked(current_val.items[path[i]], path, i + 1)

\* the loop from its i-th key on, and the return after it
RECURSIVE Walk(_, _, _)
Walk(current_val, path, i) ==
    IF i > Len(path) THEN Returned(current_val)
    ELSE IF current_val.kind = "dict" /\ HasKey(current_val, path[i])
         THEN Walk(current_val.items[path[i]], path, i + 1)
         ELSE Returned(PyNone)

GetValueFromPath(data_dict, path) == Walk(data_dict, path, 1)

\* the arguments of a call
LookupStart ==
    \E d \in Dicts(MaxDepth) : \E p \in Paths :
        lookup = [pc |-> "called", data_dict |-> d, path |-> p, ret |-> Returned(PyNone)]

\* the call runs
LookupReturn ==
    /\ lookup.pc = "called"
    /\ lookup' = [lookup EXCEPT !.pc = "done",
                                !.ret = GetValueFromPath(lookup.data_dict, lookup.path)]
    /\ UNCHANGED <<coreVars, indicator, g4s, io, flow, login, optflow, tracker, sensors, dynsensor>>

InitLookup ==
    /\ ClientStart(FALSE) /\ LookupStart /\ indicator = IndicatorIdle
    /\ g4s = G4SIdle /\ io = IoIdle /\ flow = FlowIdle /\ login = LoginIdle
    /\ optflow = OptFlowIdle /\ tracker = TrackerIdle /\ sensors = BinarySensorsIdle
    /\ dynsensor = DynamicSensorIdle

NextLookup == LookupReturn

SpecLookup == InitLookup /\ [][NextLookup]_vars

\* what stands in data_dict after the first i keys of the path, Absent when
\* one of them is missing or is looked up in something that is not a dict
RECURSIVE At(_, _, _)
At(d, p, i) ==
    IF i = 0 THEN d
    ELSE LET parent == At(d, p, i - 1) IN
         IF parent.kind = "dict" THEN parent.items[p[i]] ELSE Absent

(***************************************************************************)
(* C11.  _get_value_from_path never raises; it returns None when a key of  *)
(* the path is missing or is looked up in a value that is not a dict, and  *)
(* the value at the end of the path when every key is present.             *)
(***************************************************************************)
C11_LookupReturnsValueOrNone ==
    lookup.pc = "done" =>
        LET d == lookup.data_dict
            p == lookup.path
        IN  /\ lookup.ret.raised = None
            /\ (\E i \in 1..Len(p) : At(d, p, i).kind = "absent")
                    => lookup.ret.value = PyNone
            /\ (\A i \in 1..Len(p) : At(d, p, i).kind # "absent")
                    => lookup.ret.value = At(d, p, Len(p))

\* a two-key path whose first key holds a str: the second key is looked up
\* in a value that is not a dict, and None came back
C11_Witness ==
    /\ lookup.pc = "done"
    /\ Len(lookup.path) = 2
    /\ At(lookup.data_dict, lookup.path, 1).kind = "str"
    /\ lookup.ret = Returned(PyNone)

(***************************************************************************)
(* g4smobility.py: one indicator item (li) of a unit's HtmlControl, as     *)
(* G4SMobility.get_units records it in binary_sensors.                     *)
(***************************************************************************)
\* how many state words follow the label in the titles drawn
MaxSuffixes == 2

\* str.removesuffix, str.removeprefix
RemoveSuffix(s, suf) ==
    IF Len(s) >= Len(suf) /\ SubSeq(s, Len(s) - Len(suf) + 1, Len(s)) = suf
    THEN SubSeq(s, 1, Len(s) - Len(suf))
    ELSE s

RemovePrefix(s, pre) ==
    IF Len(s) >= Len(pre) /\ SubSeq(s, 1, Len(pre)) = pre
    THEN SubSeq(s, Len(pre) + 1, Len(s))
    ELSE s

\* str.replace(sub, ""): every occurrence, found from the left, is dropped
RECURSIVE StrRemoveAll(_, _)
StrRemoveAll(s, sub) ==
    IF Len(s) < Len(sub) THEN s
    ELSE IF SubSeq(s, 1, Len(sub)) = sub
         THEN StrRemoveAll(SubSeq(s, Len(sub) + 1, Len(s)), sub)
         ELSE <<Head(s)>> \o StrRemoveAll(Tail(s), sub)

\* str.split(sep)[0]: what stands before the first sep, all of s without one
RECURSIVE SplitFirst(_, _)
SplitFirst(s, sep) ==
    IF Len(s) < Len(sep) THEN s
    ELSE IF SubSeq(s, 1, Len(sep)) = sep THEN <<>>
    ELSE <<Head(s)>> \o SplitFirst(Tail(s), sep)

\* the suffixes and the prefixes in the order of lines 86-102; a Greek letter
\* is written as its code point
SuffixChain ==
    << <<" ","e","r","r","o","r">>,
      <<" ","o","f","f">>,
      <<" ","o","n">>,
      <<" ","o","k">>,
      <<" ","a","c","t","i","v","e">>,
      <<" ","i","n","a","c","t","i","v","e">>,
      <<" ","i","n","s","e","r","t","e","d">>,
      <<" ","p","u","l","l","e","d">>,
      <<" ","p","u","l","l"," ","o","u","t">>,
      <<" ","u","n","l","o","c","k","e","d">>,
      <<" ","l","o","c","k","e","d">>,
      <<" ","c","l","o","s","e","d">>,
      <<" ","o","p","e","n">>,
      <<"U+03C2">> >>

PrefixChain ==
    << <<"U+03BA","U+03BB","U+03B5","U+03AF","U+03C3","U+03B9","U+03BC","U+03BF"," ">>,
      <<"U+03AC","U+03BD","U+03BF","U+03B9","U+03B3","U+03BC","U+03B1"," ">>,
      <<"n","o","-">> >>

\* lines 86-99 from the i-th removesuffix on, lines 100-102 from the i-th removeprefix on
RECURSIVE RemoveSuffixes(_, _)
RemoveSuffixes(title, i) ==
    IF i > Len(SuffixChain) THEN title
    ELSE RemoveSuffixes(RemoveSuffix(title, SuffixChain[i]), i + 1)

RECURSIVE RemovePrefixes(_, _)
RemovePrefixes(title, i) ==
    IF i > Len(PrefixChain) THEN title
    ELSE RemovePrefixes(RemovePrefix(title, PrefixChain[i]), i + 1)

\* lines 103-106
Synonym(title) ==
    LET t == IF title = <<"u","n","l","o","c","k">> THEN <<"l","o","c","k">> ELSE title
    IN  IF t = <<"a","u","t","h","o","r","i","z","e","d">>
        THEN <<"u","n","a","u","t","h","o","r","i","z","e","d">>
        ELSE t

\* lines 86-106: the chain applied to a title
Canonical(title) == Synonym(RemovePrefixes(RemoveSuffixes(title, 1), 1))

\* line 85, title.split(" <br> ")[0].lower(), and the chain
TitleOf(raw) == Canonical(StrLower(SplitFirst(raw, <<" ","<","b","r",">"," ">>)))

ColorPrefix == <<"i","-","c","-">>

InactiveColors ==
    { <<"g","r","e","e","n">>,
      <<"b","l","u","e">>,
      <<"b","r","i","g","h","t","g","r","e","e","n">>,
      <<"o","f","f","w","h","i","t","e">> }

ActiveColors ==
    { <<"y","e","l","l","o","w">>,
      <<"r","e","d">>,
      <<"g","r","e","y">>,
      <<"l","i","g","h","t","g","r","e","y">> }

\* lines 107-111 with grey and lightgrey read as inactive
ActiveOfGreyInactive(color) ==
    IF color \in InactiveColors \cup {<<"g","r","e","y">>, <<"l","i","g","h","t","g","r","e","y">>} THEN "False"
    ELSE IF color \in ActiveColors THEN "True"
    ELSE None

\* lines 107-111: the active flag, None when the colour is in neither list
ActiveOf(color) ==
    IF color \in InactiveColors THEN "False"
    ELSE IF color \in ActiveColors THEN "True"
    ELSE None

\* classes[2].replace("i-c-", "")
ColorOf(classes) == StrRemoveAll(classes[3], ColorPrefix)

\* lines 82-116 for one li: the item recorded, and whether one is recorded
ItemOf(li) ==
    IF Len(li.classes) = 5
    THEN [recorded |-> TRUE, active |-> ActiveOf(ColorOf(li.classes)),
          title |-> TitleOf(li.title)]
    ELSE NoItem

\* the titles drawn: a label (door, unlock, authorized), at most one prefix
\* before it, n state words after it
RECURSIVE WithStateWords(_)
WithStateWords(n) ==
    LET prefixes == {<<>>} \cup {PrefixChain[i] : i \in 1..Len(PrefixChain)}
        labels == { <<"d","o","o","r">>, <<"u","n","l","o","c","k">>,
                    <<"a","u","t","h","o","r","i","z","e","d">> }
    IN  IF n = 0 THEN {p \o l : p \in prefixes, l \in labels}
        ELSE {t \o SuffixChain[i] : t \in WithStateWords(n - 1), i \in 1..Len(SuffixChain)}

\* and a title as the page gives it: capitals, and the line after " <br> "
Titles ==
    UNION {WithStateWords(n) : n \in 0..MaxSuffixes}
    \cup {<<"D","o","o","r"," ","O","p","e","n"," ","<","b","r",">"," ","1","2",":","0","0">>}

\* the class lists drawn: five classes with each colour of the two lists,
\* with orange, the empty colour and Green, and with a colour class without
\* the i-c- prefix; a list of four and a list of six classes
ClassLists ==
    LET t == <<"t","-","i">>
        icon == <<"t","-","i","o","-","d","o","o","r">>
        plain == <<"t","-","c">>
        others == { <<"o","r","a","n","g","e">>, <<>>, <<"G","r","e","e","n">> }
    IN  { <<t, icon, ColorPrefix \o c, plain, plain>> :
              c \in InactiveColors \cup ActiveColors \cup others }
        \cup { <<t, icon, <<"r","e","d">>, plain, plain>>,
               <<t, icon, <<"i","-","c","-","r","e","d">>, plain>>,
               <<t, icon, <<"i","-","c","-","g","r","e","e","n">>, plain, plain, plain>> }

\* the li that get_units comes to
IndicatorStart ==
    \E t \in Titles : \E c \in ClassLists :
        indicator = [pc |-> "li", li |-> [title |-> t, classes |-> c],
                     item |-> NoItem, again |-> <<>>]

\* lines 82-116 run for it
ParseIndicator ==
    /\ indicator.pc = "li"
    /\ indicator' = [indicator EXCEPT !.pc = "parsed", !.item = ItemOf(indicator.li)]
    /\ UNCHANGED <<coreVars, lookup, g4s, io, flow, login, optflow, tracker, sensors, dynsensor>>

\* the chain of lines 86-106 is run again on the title recorded
RerunChain ==
    /\ indicator.pc = "parsed"
    /\ indicator.item.recorded
    /\ indicator' = [indicator EXCEPT !.pc = "rerun",
                                      !.again = Canonical(indicator.item.title)]
    /\ UNCHANGED <<coreVars, lookup, g4s, io, flow, login, optflow, tracker, sensors, dynsensor>>

InitIndicator ==
    /\ ClientStart(FALSE) /\ lookup = LookupIdle /\ IndicatorStart
    /\ g4s = G4SIdle /\ io = IoIdle /\ flow = FlowIdle /\ login = LoginIdle
    /\ optflow = OptFlowIdle /\ tracker = TrackerIdle /\ sensors = BinarySensorsIdle
    /\ dynsensor = DynamicSensorIdle

NextIndicator == ParseIndicator \/ RerunChain

SpecIndicator == InitIndicator /\ [][NextIndicator]_vars

(***************************************************************************)
(* C12.  The chain of suffix removals, prefix removals and synonym         *)
(* substitutions is idempotent: run again on the title it produced, it     *)
(* gives that title back.                                                  *)
(***************************************************************************)
C12_CanonicalizationIdempotent ==
    indicator.pc = "rerun" => indicator.again = indicator.item.title

(***************************************************************************)
(* C14.  The active flag of a recorded indicator item is False when its    *)
(* colour is green, blue, brightgreen or offwhite, True when it is yellow, *)
(* red, grey or lightgrey, and None for every other colour.                *)
(***************************************************************************)
C14_ActiveFlagFollowsColour ==
    indicator.item.recorded =>
        LET color == ColorOf(indicator.li.classes)
            active == indicator.item.active
        IN  /\ color \in InactiveColors => active = "False"
            /\ color \in ActiveColors => active = "True"
            /\ color \notin InactiveColors \cup ActiveColors => active = None

\* an item whose colour class is i-c-lightgrey is recorded as active
C14_Witness ==
    /\ indicator.item.recorded
    /\ indicator.li.classes[3] = ColorPrefix \o <<"l","i","g","h","t","g","r","e","y">>
    /\ indicator.item.active = "True"

(***************************************************************************)
(* g4smobility.py: G4SMobility.get_units.  Time is counted in seconds.     *)
(* The field lat of a unit record stands for everything the record takes   *)
(* over from the response as it is (name, position, sensors, indicators);  *)
(* last_sent is the value of its "Last sent" sensor, the parsed timestamp. *)
(***************************************************************************)
\* how many get_units calls are made
MaxUnitPolls == 2

\* 60 * 60 * 13
StaleAfter == 46800

\* the time between two calls
PollInterval == 60

\* what the response says of a unit: not listed, listed with HasData false,
\* listed with data that lacks a field, or listed with data last updated
\* age seconds before the call
UnitEntries ==
    {NotListed, [kind |-> "nodata", age |-> 0], [kind |-> "malformed", age |-> 0]}
    \cup {[kind |-> "data", age |-> a] : a \in {StaleAfter - 1, StaleAfter, StaleAfter + 1}}

UnitsResponses == [UnitIds -> UnitEntries]

\* how the requests of one call go: the first units request, the login
\* request of user_authentication (raises: the post itself fails; unparsed:
\* its body is not the options JSON), the second units request
NetOutcomes ==
    {[first |-> "ok", auth |-> "none", second |-> "none"],
     [first |-> "fail", auth |-> "raises", second |-> "none"]}
    \cup {[first |-> "fail", auth |-> a, second |-> s] :
              a \in {"ok", "unparsed"}, s \in {"ok", "fail"}}

Delivers(net) == net.first = "ok" \/ net.second = "ok"

\* lines 42-59: self.options after user_authentication
OptionsAfter(options, net) == IF net.auth = "ok" THEN "full" ELSE options

\* line 123 written with <=
AvailableOfInclusive(updated_before) == updated_before <= StaleAfter

\* lines 121-124
AvailableOf(updated_before) == updated_before < StaleAfter

\* lines 118-170: the record of a unit with data; reading is what the vendor reports
RecordOf(entry, t, reading) ==
    [known |-> TRUE, available |-> AvailableOf(t - (t - entry.age)),
     last_sent |-> t - entry.age, lat |-> reading]

\* lines 74-170: the local dict units
ParsedUnits(resp, t, reading) ==
    [u \in UnitIds |-> IF resp[u].kind = "data" THEN RecordOf(resp[u], t, reading) ELSE NoUnit]

\* the same, with a failure of the second request swallowed
UnitsRaisesSwallowsSecond(net, resp, options) ==
    IF net.first = "fail" /\ net.auth = "raises" THEN "ConnectionError"
    ELSE IF ~Delivers(net) THEN None
    ELSE IF \E u \in UnitIds : resp[u].kind = "malformed" THEN "KeyError"
    ELSE IF options = "empty" /\ \E u \in UnitIds : resp[u].kind = "data" THEN "KeyError"
    ELSE None

\* lines 66-170: what get_units raises before it reaches line 172
UnitsRaises(net, resp, options) ==
    IF net.first = "fail" /\ net.auth = "raises" THEN "ConnectionError"
    ELSE IF ~Delivers(net) THEN "RequestException"
    ELSE IF \E u \in UnitIds : resp[u].kind = "malformed" THEN "KeyError"
    ELSE IF options = "empty" /\ \E u \in UnitIds : resp[u].kind = "data" THEN "KeyError"
    ELSE None

\* lines 172-176 with the units that are absent deleted
MergedDropsOffline(old, new) == new

\* lines 172-176: self.units after update() and the loop over offline_unitids
Merged(old, new) ==
    [u \in UnitIds |->
        IF new[u].known THEN new[u]
        ELSE IF old[u].known THEN [old[u] EXCEPT !.available = FALSE]
        ELSE NoUnit]

\* the same, with each record stored as soon as it is parsed
StoredPartial(exc, old, units) == Merged(old, units)

\* lines 66-176: the mapping self.units after a remember=True call that
\* raised exc (None: it reached line 172) with the local dict units
Stored(exc, old, units) == IF exc # None THEN old ELSE Merged(old, units)

\* self.units
Units == g4s.heap[g4s.units]

\* G4SMobility(username, password) returned: user_authentication parsed the
\* options or swallowed its failure
G4SStart ==
    \E o \in {"empty", "full"} : g4s = [G4SIdle EXCEPT !.pc = "idle", !.options = o]

\* get_units(remember) is called and sends its first request; silent: the
\* vendor never answers it
GetUnitsCall(remember, silent) ==
    /\ g4s.pc = "idle"
    /\ g4s.calls < MaxUnitPolls
    /\ g4s' = [g4s EXCEPT !.pc = "waiting", !.calls = @ + 1, !.now = @ + PollInterval,
                          !.remember = remember, !.silent = silent]
    /\ UNCHANGED <<coreVars, lookup, indicator, io, flow, login, optflow, tracker, sensors, dynsensor>>

\* the requests of the call are answered or fail, and the call ends
GetUnitsEnd(net, resp) ==
    /\ g4s.pc = "waiting"
    /\ ~g4s.silent
    /\ Delivers(net) \/ resp = NoUnitsResponse
    /\ LET options == OptionsAfter(g4s.options, net)
           exc == UnitsRaises(net, resp, options)
           units == ParsedUnits(resp, g4s.now, g4s.calls)
           last == [remember |-> g4s.remember, net |-> net, resp |-> resp,
                    out |-> IF exc = None THEN "returned" ELSE exc,
                    nReq |-> IF net.second = "none" THEN 1 ELSE 2,
                    nAuth |-> IF net.auth = "none" THEN 0 ELSE 1,
                    at |-> g4s.now]
       IN  IF exc # None
           THEN g4s' = [g4s EXCEPT !.pc = "idle", !.options = options, !.last = last,
                                   !.heap[g4s.units] = Stored(exc, @, units)]
           ELSE IF g4s.remember
           THEN g4s' = [g4s EXCEPT !.pc = "idle", !.options = options, !.last = last,
                                   !.heap[g4s.units] = Stored(exc, @, units),
                                   !.handed = @ \cup {g4s.units}]
           ELSE g4s' = [g4s EXCEPT !.pc = "idle", !.options = options, !.last = last,
                                   !.heap = Append(@, units),
                                   !.units = Len(g4s.heap) + 1,
                                   !.handed = @ \cup {Len(g4s.heap) + 1}]
    /\ UNCHANGED <<coreVars, lookup, indicator, io, flow, login, optflow, tracker, sensors, dynsensor>>

InitUnits ==
    /\ ClientStart(FALSE) /\ lookup = LookupIdle /\ indicator = IndicatorIdle
    /\ G4SStart /\ io = IoIdle /\ flow = FlowIdle /\ login = LoginIdle
    /\ optflow = OptFlowIdle /\ tracker = TrackerIdle /\ sensors = BinarySensorsIdle
    /\ dynsensor = DynamicSensorIdle

NextUnits ==
    \/ \E remember \in BOOLEAN : \E silent \in BOOLEAN : GetUnitsCall(remember, silent)
    \/ \E net \in NetOutcomes : \E resp \in UnitsResponses : GetUnitsEnd(net, resp)

SpecUnits == InitUnits /\ [][NextUnits]_vars

(***************************************************************************)
(* C13.  A get_units(remember=True) call that returns keeps every unit id  *)
(* self.units held: a unit for which the response has no record keeps its  *)
(* fields, but for available, which is False; a unit for which the         *)
(* response has a record is overwritten by that record.                    *)
(***************************************************************************)
C13_MergeKeepsAbsentUnits ==
    [][(/\ g4s.pc = "waiting" /\ g4s'.pc = "idle"
        /\ g4s'.last.out = "returned" /\ g4s'.last.remember)
       => \A u \in UnitIds :
            LET e == g4s'.last.resp[u]
                old == g4s.heap[g4s.units][u]
                new == g4s'.heap[g4s'.units][u]
            IN  /\ old.known => new.known
                /\ e.kind = "data" => new = RecordOf(e, g4s'.last.at, g4s'.calls)
                /\ (e.kind # "data" /\ old.known)
                       => /\ ~new.available
                          /\ new.lat = old.lat
                          /\ new.last_sent = old.last_sent]_vars

\* the second of two remember=True calls did not list unit 1, which the first
\* had recorded as available, and brought a new record of unit 2
C13_Witness ==
    /\ g4s.calls = 2 /\ g4s.pc = "idle"
    /\ g4s.last.out = "returned" /\ g4s.last.remember
    /\ g4s.last.resp[1] = NotListed
    /\ Units[1] = [known |-> TRUE, available |-> FALSE,
                   last_sent |-> PollInterval - (StaleAfter - 1), lat |-> 1]
    /\ g4s.last.resp[2].kind = "data"
    /\ Units[2].lat = 2

C17_HandedOutSnapshotNotModified ==
    [][\A o \in g4s.handed : g4s'.heap[o] = g4s.heap[o]]_vars

(***************************************************************************)
(* C18.  A get_units call whose request the vendor never answers does not  *)
(* block for ever: a step that ends the call is possible.                  *)
(***************************************************************************)
C18_SilentVendorCallCanEnd ==
    (g4s.pc = "waiting" /\ g4s.silent) => ENABLED NextUnits

(***************************************************************************)
(* binary_sensor.py: the display name and the device class of the binary   *)
(* sensor that async_setup_entry creates for one IO item.                  *)
(***************************************************************************)
\* BINARY_SENSOR_KEYWORD_TO_DEVICE_CLASS_MAP, in the order of const.py
KeywordMap ==
    << <<<<"d","o","o","r">>, "DOOR">>,
       <<<<"w","i","n","d","o","w">>, "WINDOW">>,
       <<<<"m","o","t","i","o","n">>, "MOTION">>,
       <<<<"m","o","v","e","m","e","n","t">>, "MOTION">>,
       <<<<"a","l","a","r","m">>, "SAFETY">>,
       <<<<"s","a","f","e","t","y">>, "SAFETY">>,
       <<<<"i","g","n","i","t","i","o","n">>, "POWER">>,
       <<<<"p","o","w","e","r">>, "POWER">>,
       <<<<"s","i","r","e","n">>, "SOUND">>,
       <<<<"t","o","w","i","n","g">>, "TAMPER">>,
       <<<<"t","a","m","p","e","r">>, "TAMPER">>,
       <<<<"v","i","b","r","a","t","i","o","n">>, "VIBRATION">>,
       <<<<"l","o","c","k">>, "LOCK">>,
       <<<<"l","i","g","h","t">>, "LIGHT">> >>

Whitespace == {" ", "\t"}

\* str.strip()
RECURSIVE Strip(_)
Strip(s) ==
    IF s = <<>> THEN s
    ELSE IF Head(s) \in Whitespace THEN Strip(Tail(s))
    ELSE IF s[Len(s)] \in Whitespace THEN Strip(SubSeq(s, 1, Len(s) - 1))
    ELSE s

\* dict.get(key, ""); for SystemName, whose dict.get(key) is only tested with
\* `not`, the absent key and the empty text are the same
TextOf(field) == IF field.has THEN field.text ELSE <<>>

\* lines 59-64
DisplayName(io_item) ==
    LET user_description == Strip(TextOf(io_item.UserDescription))
        description == Strip(TextOf(io_item.Description))
    IN  IF user_description # <<>> THEN user_description
        ELSE IF description # <<>> THEN description
        ELSE TextOf(io_item.SystemName)

\* lines 141-145 without the break: the last keyword that occurs decides
RECURSIVE FirstMatchNoBreak(_, _)
FirstMatchNoBreak(search, i) ==
    IF i > Len(KeywordMap) THEN None
    ELSE LET later == FirstMatchNoBreak(search, i + 1) IN
         IF later # None THEN later
         ELSE IF StrIn(KeywordMap[i][1], search) THEN KeywordMap[i][2]
         ELSE None

\* lines 141-145: the loop over the map from its i-th entry on
RECURSIVE FirstMatch(_, _)
FirstMatch(search, i) ==
    IF i > Len(KeywordMap) THEN None
    ELSE IF StrIn(KeywordMap[i][1], search) THEN KeywordMap[i][2]
    ELSE FirstMatch(search, i + 1)

\* lines 140-145
DeviceClassOf(io_display_name) == FirstMatch(StrLower(io_display_name), 1)

\* the IO items drawn: each key absent, or present with one of these texts
Field(text) == [has |-> TRUE, text |-> text]

IoItems ==
    [SystemName : {NoField, Field(<<>>), Field(<<"I","n","p","u","t"," ","1">>), Field(<<"L","i","g","h","t">>)},
     Description : {NoField, Field(<<>>), Field(<<" "," ">>), Field(<<"I","g","n","i","t","i","o","n">>),
                    Field(<<" ","A","l","a","r","m"," ","D","o","o","r"," ">>), Field(<<"G","P","S"," ","a","n","t","e","n","n","a">>)},
     UserDescription : {NoField, Field(<<>>), Field(<<" "," ">>), Field(<<"R","e","a","r"," ","W","I","N","D","O","W"," ","l","o","c","k">>),
                        Field(<<"T","o","w","i","n","g"," ","l","i","g","h","t">>), Field(<<"P","a","n","i","c"," ","b","u","t","t","o","n">>)}]

IoStart == \E item \in IoItems : io = [IoIdle EXCEPT !.pc = "item", !.io_item = item]

\* lines 50-95 for the item, and ThreeDTrackingVehicleBinarySensor.__init__
SetupIoItem ==
    /\ io.pc = "item"
    /\ io' = IF TextOf(io.io_item.SystemName) = <<>>
             THEN [io EXCEPT !.pc = "done"]
             ELSE [io EXCEPT !.pc = "done", !.created = TRUE,
                             !.name = DisplayName(io.io_item),
                             !.device_class = DeviceClassOf(DisplayName(io.io_item))]
    /\ UNCHANGED <<coreVars, lookup, indicator, g4s, flow, login, optflow, tracker, sensors, dynsensor>>

InitIo ==
    /\ ClientStart(FALSE) /\ lookup = LookupIdle /\ indicator = IndicatorIdle
    /\ g4s = G4SIdle /\ IoStart /\ flow = FlowIdle /\ login = LoginIdle
    /\ optflow = OptFlowIdle /\ tracker = TrackerIdle /\ sensors = BinarySensorsIdle
    /\ dynsensor = DynamicSensorIdle

NextIo == SetupIoItem

SpecIo == InitIo /\ [][NextIo]_vars

\* the text of a field is there and is not only whitespace
NonBlank(field) == field.has /\ \E i \in 1..Len(field.text) : field.text[i] \notin Whitespace

(***************************************************************************)
(* C16.  The display name of a binary sensor is UserDescription if that is *)
(* non-blank, else Description if that is non-blank, else SystemName (the  *)
(* first two without the whitespace around them); its device class is the  *)
(* class of the first keyword of the map, in the map's order, that occurs  *)
(* in the lower-cased display name, and None when no keyword occurs.       *)
(***************************************************************************)
C16_DeviceClassOfFirstKeyword ==
    io.created =>
        LET item == io.io_item
            search == StrLower(io.name)
            Occurs(i) == StrIn(KeywordMap[i][1], search)
        IN  /\ io.name = IF NonBlank(item.UserDescription) THEN Strip(item.UserDescription.text)
                         ELSE IF NonBlank(item.Description) THEN Strip(item.Description.text)
                         ELSE item.SystemName.text
            /\ \A i \in 1..Len(KeywordMap) :
                   (Occurs(i) /\ \A j \in 1..(i - 1) : ~Occurs(j))
                       => io.device_class = KeywordMap[i][2]
            /\ (\A i \in 1..Len(KeywordMap) : ~Occurs(i)) => io.device_class = None

\* UserDescription is blank, Description is " Alarm Door ": the name is
\* "Alarm Door" and the class that of door, which precedes alarm in the map
C16_Witness ==
    /\ io.created
    /\ io.io_item.UserDescription = Field(<<" "," ">>)
    /\ io.name = <<"A","l","a","r","m"," ","D","o","o","r">>
    /\ io.device_class = "DOOR"

(***************************************************************************)
(* config_flow.py: ThreeDTrackingConfigFlow.async_step_user                *)
(***************************************************************************)
\* how often the user submits the form
MaxSubmits == 3

\* lines 58-69: what the body of the try statement raises; configured: the
\* username is the unique id of an existing entry
StepUserBodyRaises(resp, configured) ==
    IF AuthRaises(resp) # None THEN AuthRaises(resp)
    ELSE IF configured THEN "AbortFlow"
    ELSE None

\* lines 71-83: errors["base"] as the except clauses set it, None when no
\* clause catches exc
StepUserError(exc) ==
    IF Catches({"ThreeDTrackingAuthError"}, exc) THEN "invalid_auth"
    ELSE IF Catches({"ThreeDTrackingApiClientError", "ClientError"}, exc) THEN "cannot_connect"
    ELSE IF Catches({"TimeoutError"}, exc) THEN "cannot_connect"
    ELSE IF Catches({"Exception"}, exc) THEN "unknown"
    ELSE None

\* async_step_user(None): the form is shown without errors
FlowStart == flow = [FlowIdle EXCEPT !.pc = "form"]

\* lines 51-59: the form is submitted; the session and the client are
\* created and the authentication request is sent
StepUserSubmit(configured) ==
    /\ flow.pc = "form"
    /\ flow.submits < MaxSubmits
    /\ flow' = [flow EXCEPT !.pc = "auth_wait", !.submits = @ + 1, !.sessionOpen = TRUE,
                            !.configured = configured, !.errors = None]
    /\ UNCHANGED <<coreVars, lookup, indicator, g4s, io, login, optflow, tracker, sensors, dynsensor>>

\* lines 59-89: async_authenticate ends and async_step_user runs to its return
StepUserAuthResponse(resp) ==
    /\ flow.pc = "auth_wait"
    /\ resp.kind # "none"
    /\ LET exc == StepUserBodyRaises(resp, flow.configured)
           error == StepUserError(exc)
       IN  flow' = [flow EXCEPT
                       !.pc = IF exc = None THEN "created"
                              ELSE IF error = None THEN "raised"
                              ELSE "form",
                       !.errors = error,
                       !.sessionOpen = FALSE,
                       !.resp = resp,
                       !.raised = exc,
                       !.left = IF exc # None /\ error = None THEN exc ELSE None]
    /\ UNCHANGED <<coreVars, lookup, indicator, g4s, io, login, optflow, tracker, sensors, dynsensor>>

InitFlow ==
    /\ ClientStart(FALSE) /\ lookup = LookupIdle /\ indicator = IndicatorIdle
    /\ g4s = G4SIdle /\ io = IoIdle /\ FlowStart /\ login = LoginIdle
    /\ optflow = OptFlowIdle /\ tracker = TrackerIdle /\ sensors = BinarySensorsIdle
    /\ dynsensor = DynamicSensorIdle

NextFlow ==
    \/ \E configured \in BOOLEAN : StepUserSubmit(configured)
    \/ \E resp \in AuthResponses : StepUserAuthResponse(resp)

SpecFlow == InitFlow /\ [][NextFlow]_vars

\* async_step_user has returned or raised after a submission
StepUserEnded == flow.submits > 0 /\ flow.pc # "auth_wait"

(***************************************************************************)
(* C19.  When the vendor rejected the credentials (a Status.Result other   *)
(* than "ok") the form is shown with the error invalid_auth, when the      *)
(* request failed in the network or timed out with cannot_connect; in both *)
(* cases no entry is created and the temporary session is closed.          *)
(***************************************************************************)
C19_RejectedCredentialsAreInvalidAuth ==
    StepUserEnded =>
        /\ (flow.resp.kind = "json" /\ flow.resp.status \notin {"ok", Missing})
               => /\ flow.pc = "form" /\ flow.errors = "invalid_auth"
                  /\ ~flow.sessionOpen
        /\ flow.resp.kind \in {"client_error", "timeout"}
               => /\ flow.pc = "form" /\ flow.errors = "cannot_connect"
                  /\ ~flow.sessionOpen

(***************************************************************************)
(* C20.  When the authentication succeeded and the username is already     *)
(* configured, the flow is aborted: the abort exception leaves             *)
(* async_step_user, no entry is created, and the form is not shown again   *)
(* with an error.                                                          *)
(***************************************************************************)
C20_ConfiguredUsernameAbortsFlow ==
    (StepUserEnded /\ AuthRaises(flow.resp) = None /\ flow.configured) =>
        /\ flow.pc = "raised" /\ flow.left = "AbortFlow"
        /\ flow.errors = None

(***************************************************************************)
(* C29.  An async_authenticate that raises leaves the stored user id,      *)
(* session id and expiry as they were.  The three fields change only in an *)
(* async_authenticate that returns, but for a positions response that      *)
(* reports a session problem, which clears the session id and leaves the   *)
(* user id and the expiry as they were.                                    *)
(***************************************************************************)
C29_FailedAuthenticationLeavesFields ==
    [][LET authEnded ==
               \/ \E t \in Tasks : calls[t].pc = "auth_wait" /\ calls'[t].auth # "pending"
               \/ setupPc = "auth_wait" /\ setupPc' # "auth_wait"
       IN  /\ (authEnded /\ lastAuth'.raised # None) => clientVars' = clientVars
           /\ clientVars' # clientVars
                  => \/ authEnded /\ lastAuth'.raised = None
                     \/ /\ lastEnded' = "session_error"
                        /\ session_id' = None
                        /\ user_id_guid' = user_id_guid
                        /\ session_expires' = session_expires]_vars

\* an authentication made at the expiry of a session failed, and the client
\* still holds that session and its expiry
C29_Witness ==
    \E t \in Tasks :
        /\ calls[t].expired /\ calls[t].auth = "raised"
        /\ lastAuth.raised # None
        /\ session_id # None /\ user_id_guid # None
        /\ session_expires # {}

\* a get_units call has ended
GetUnitsEnded == g4s.pc = "idle" /\ g4s.calls > 0

(***************************************************************************)
(* C23.  A get_units call issues at most two units requests and at most    *)
(* one re-authentication; these happen only when the first request failed; *)
(* the second request is issued whether or not the re-authentication       *)
(* succeeded; a failure of the second request is raised to the caller.     *)
(***************************************************************************)
C23_SecondRequestAfterAnyReauthentication ==
    GetUnitsEnded =>
        /\ g4s.last.nReq <= 2 /\ g4s.last.nAuth <= 1
        /\ (g4s.last.nReq = 2 \/ g4s.last.nAuth = 1) => g4s.last.net.first = "fail"
        /\ g4s.last.net.first = "fail" => (g4s.last.nAuth = 1 /\ g4s.last.nReq = 2)
        /\ g4s.last.net.second = "fail" => g4s.last.out # "returned"

(***************************************************************************)
(* C23, amended.  As above, but the second request is issued when          *)
(* user_authentication returns, whether it parsed the login response or    *)
(* not; when the login request itself raises, that exception leaves        *)
(* get_units and no second request is issued.                              *)
(***************************************************************************)
C23_SecondRequestWhenReauthenticationReturns ==
    GetUnitsEnded =>
        /\ g4s.last.nReq <= 2 /\ g4s.last.nAuth <= 1
        /\ (g4s.last.nReq = 2 \/ g4s.last.nAuth = 1) => g4s.last.net.first = "fail"
        /\ g4s.last.net.first = "fail" =>
               /\ g4s.last.nAuth = 1
               /\ g4s.last.net.auth \in {"ok", "unparsed"} => g4s.last.nReq = 2
               /\ g4s.last.net.auth = "raises" =>
                      (g4s.last.nReq = 1 /\ g4s.last.out = "ConnectionError")
        /\ g4s.last.net.second = "fail" => g4s.last.out # "returned"

\* the first request failed, the login response was not the options JSON,
\* and the second request was issued and answered
C23_Witness ==
    /\ GetUnitsEnded
    /\ g4s.last.net = [first |-> "fail", auth |-> "unparsed", second |-> "ok"]
    /\ g4s.last.nReq = 2 /\ g4s.last.nAuth = 1
    /\ g4s.last.out = "returned"

(***************************************************************************)
(* C30.  A get_units call that raises leaves self.units as it was: the     *)
(* same mapping, with the same records.                                    *)
(***************************************************************************)
C30_FailedPollLeavesUnits ==
    [][(g4s.pc = "waiting" /\ g4s'.pc = "idle" /\ g4s'.last.out # "returned")
       => (g4s'.units = g4s.units /\ g4s'.heap = g4s.heap)]_vars

\* the second call raised on a malformed unit 2 after the record of unit 1
\* had been parsed; self.units still holds the record of the first call
C30_Witness ==
    /\ GetUnitsEnded /\ g4s.calls = 2
    /\ g4s.last.out = "KeyError"
    /\ g4s.last.resp[1].kind = "data" /\ g4s.last.resp[2].kind = "malformed"
    /\ Units[1].known /\ Units[1].available /\ Units[1].lat = 1

(***************************************************************************)
(* g4smobility.py: the construction of a G4SMobility object, its login and *)
(* parse_options.  SpecLogin draws the vendor's answer to the login        *)
(* request and constructs the object.                                      *)
(***************************************************************************)
MaxPrefs == 2
MaxHour == 2

\* the vendor's answers to the login request: the request raises, the body is
\* not JSON, or it is a JSON object with or without "Id" and "Preferences".
\* An entry of "Preferences" is named by the branch of lines 25-39 it takes:
\* malformed has no "Value" key, gmt has the Text "(GMT <sign><hh>:<mm>) ..."
LoginResponses ==
    LET Pref(kind) == [kind |-> kind, sign |-> "", hh |-> 0, mm |-> 0]
        GmtPrefs == [kind : {"gmt"}, sign : {"", "+", "-"}, hh : 0..MaxHour, mm : {0, 30}]
        PrefItems ==
            {Pref(k) : k \in {"speed", "temp", "dateformat", "other", "malformed"}}
                \cup GmtPrefs
        PrefLists == UNION {[1..n -> PrefItems] : n \in 0..MaxPrefs}
    IN  {[NoLoginResponse EXCEPT !.post = "raises"],
         [NoLoginResponse EXCEPT !.post = "ok"],
         [NoLoginResponse EXCEPT !.post = "ok", !.json = TRUE],
         [NoLoginResponse EXCEPT !.post = "ok", !.json = TRUE, !.id = TRUE]}
        \cup {[post |-> "ok", json |-> TRUE, id |-> TRUE,
               prefs |-> [has |-> TRUE, items |-> l]] : l \in PrefLists}

\* line 30: int(match.group(1)) * 60 - int(match.group(2)), where the first
\* group is the hours with their sign
TzOffset(item) ==
    LET PyInt(sign, n) == IF sign = "-" THEN 0 - n ELSE n
    IN  PyInt(item.sign, item.hh) * 60 - PyInt("", item.mm)

\* lines 25-39: one entry of the loop
ParsePref(options, item) ==
    CASE item.kind = "speed" -> [options EXCEPT !.speed_sign = TRUE]
      [] item.kind = "temp" -> [options EXCEPT !.temp_sign = TRUE]
      [] item.kind = "gmt" ->
            [options EXCEPT !.timezone = [has |-> TRUE, minutes |-> TzOffset(item)]]
      [] item.kind = "dateformat" -> [options EXCEPT !.dateformat = TRUE]
      [] OTHER -> options

\* lines 24-39: the loop; self.options when it ends and what it raised
RECURSIVE ParsePrefs(_, _)
ParsePrefs(options, items) ==
    IF items = <<>> THEN [options |-> options, raised |-> None]
    ELSE IF Head(items).kind = "malformed" THEN [options |-> options, raised |-> "KeyError"]
    ELSE ParsePrefs(ParsePref(options, Head(items)), Tail(items))

\* lines 22-39
ParseOptions(options, resp) ==
    IF ~resp.id THEN [options |-> options, raised |-> "KeyError"]
    ELSE IF ~resp.prefs.has
    THEN [options |-> [options EXCEPT !.user = TRUE], raised |-> "KeyError"]
    ELSE ParsePrefs([options EXCEPT !.user = TRUE], resp.prefs.items)

\* lines 42-59: self.options afterwards, what it returned, what it raised
UserAuthentication(options, resp) ==
    IF resp.post = "raises"
    THEN [options |-> options, returned |-> None, raised |-> "ConnectionError"]
    ELSE IF ~resp.json
    THEN [options |-> options, returned |-> "False", raised |-> None]
    ELSE LET parsed == ParseOptions(options, resp)
         IN  IF parsed.raised = None
             THEN [options |-> parsed.options, returned |-> "True", raised |-> None]
             ELSE IF Catches({"Exception"}, parsed.raised)
             THEN [options |-> parsed.options, returned |-> "False", raised |-> None]
             ELSE [options |-> parsed.options, returned |-> None, raised |-> parsed.raised]

LoginStart ==
    \E resp \in LoginResponses : login = [LoginIdle EXCEPT !.pc = "new", !.resp = resp]

\* lines 13-20: G4SMobility(username, password)
Construct ==
    /\ login.pc = "new"
    /\ LET auth == UserAuthentication(NoOptions, login.resp)
       IN  login' = [login EXCEPT !.pc = "built", !.options = auth.options,
                                  !.authenticated = auth.returned, !.raised = auth.raised]
    /\ UNCHANGED <<coreVars, lookup, indicator, g4s, io, flow, optflow, tracker, sensors, dynsensor>>

InitLogin ==
    /\ ClientStart(FALSE) /\ lookup = LookupIdle /\ indicator = IndicatorIdle
    /\ g4s = G4SIdle /\ io = IoIdle /\ flow = FlowIdle /\ LoginStart
    /\ optflow = OptFlowIdle /\ tracker = TrackerIdle /\ sensors = BinarySensorsIdle
    /\ dynsensor = DynamicSensorIdle

NextLogin == Construct

SpecLogin == InitLogin /\ [][NextLogin]_vars

(***************************************************************************)
(* C24.  When the login response is parsed, the timezone stored is the     *)
(* signed offset of the last "(GMT <sign>hh:mm" preference:                *)
(* sign x (hh x 60 + mm) minutes.                                          *)
(***************************************************************************)
C24_TimezoneOffsetIsSigned ==
    LET items == login.resp.prefs.items
        gmt == {i \in 1..Len(items) : items[i].kind = "gmt"}
        last == items[CHOOSE i \in gmt : \A j \in gmt : j <= i]
        SignedOffset(item) ==
            (IF item.sign = "-" THEN 0 - 1 ELSE 1) * (item.hh * 60 + item.mm)
    IN  (login.pc = "built" /\ login.authenticated = "True" /\ gmt # {})
            => /\ login.options.timezone.has
               /\ login.options.timezone.minutes = SignedOffset(last)

(***************************************************************************)
(* C25.  When the login response cannot be parsed as the options JSON, the *)
(* constructor reports the failure to its caller and self.options is the   *)
(* empty mapping it was before the attempt.                                *)
(***************************************************************************)
C25_UnparsedLoginIsReported ==
    (login.pc = "built" /\ login.authenticated = "False")
        => (login.raised # None /\ login.options = NoOptions)

(***************************************************************************)
(* config_flow.py: the options flow, and the scan interval that            *)
(* async_setup_entry reads.  SpecOptions draws the stored options and the  *)
(* values submitted.                                                       *)
(***************************************************************************)
MaxOptionSubmits == 2
DefaultScanInterval == 60
MinScanInterval == 10
MaxScanInterval == 3600

\* the values submitted for scan_interval
ScanInputs ==
    {MinScanInterval - 1, MinScanInterval, DefaultScanInterval, MaxScanInterval,
     MaxScanInterval + 1}

\* the same, with both limits excluded
ScanIntervalAcceptedExclusive(v) == MinScanInterval < v /\ v < MaxScanInterval

\* config_flow.py line 116: the else branch is taken
ScanIntervalAccepted(v) == MinScanInterval <= v /\ v <= MaxScanInterval

\* entry.options.get(CONF_SCAN_INTERVAL, DEFAULT_SCAN_INTERVAL)
ScanIntervalOf(options) ==
    IF options.scan_interval.has THEN options.scan_interval.seconds
    ELSE DefaultScanInterval

OptFlowStart ==
    \E s \in {NoScanInterval} \cup
             {[has |-> TRUE, seconds |-> v] : v \in {MinScanInterval, MaxScanInterval}},
       other \in BOOLEAN :
        optflow = [OptFlowIdle EXCEPT !.pc = "form",
                                      !.options = [scan_interval |-> s, other |-> other]]

\* config_flow.py lines 106-145: async_step_init(user_input) with a value for
\* scan_interval; the options created become entry.options
OptionsSubmit(v) ==
    /\ optflow.pc = "form"
    /\ optflow.submits < MaxOptionSubmits
    /\ IF ScanIntervalAccepted(v)
       THEN LET new_options ==
                    [optflow.options EXCEPT !.scan_interval = [has |-> TRUE, seconds |-> v]]
            IN  optflow' = [optflow EXCEPT
                    !.pc = "created", !.submits = @ + 1, !.options = new_options,
                    !.last = [value |-> v, before |-> optflow.options, outcome |-> "created",
                              data |-> new_options, errors |-> None]]
       ELSE optflow' = [optflow EXCEPT
                    !.submits = @ + 1,
                    !.last = [value |-> v, before |-> optflow.options, outcome |-> "form",
                              data |-> NoSubmit.data, errors |-> "invalid_scan_interval"]]
    /\ UNCHANGED <<coreVars, lookup, indicator, g4s, io, flow, login, tracker, sensors, dynsensor>>

\* __init__.py lines 34 and 78: the update interval of the coordinator
SetupScanInterval ==
    /\ optflow.pc \in {"form", "created"}
    /\ optflow.interval # {ScanIntervalOf(optflow.options)}
    /\ optflow' = [optflow EXCEPT !.interval = {ScanIntervalOf(optflow.options)}]
    /\ UNCHANGED <<coreVars, lookup, indicator, g4s, io, flow, login, tracker, sensors, dynsensor>>

\* the options flow is opened again
OptionsReopen ==
    /\ optflow.pc = "created"
    /\ optflow.submits < MaxOptionSubmits
    /\ optflow' = [optflow EXCEPT !.pc = "form"]
    /\ UNCHANGED <<coreVars, lookup, indicator, g4s, io, flow, login, tracker, sensors, dynsensor>>

InitOptions ==
    /\ ClientStart(FALSE) /\ lookup = LookupIdle /\ indicator = IndicatorIdle
    /\ g4s = G4SIdle /\ io = IoIdle /\ flow = FlowIdle /\ login = LoginIdle
    /\ OptFlowStart /\ tracker = TrackerIdle /\ sensors = BinarySensorsIdle
    /\ dynsensor = DynamicSensorIdle

NextOptions ==
    \/ \E v \in ScanInputs : OptionsSubmit(v)
    \/ SetupScanInterval
    \/ OptionsReopen

SpecOptions == InitOptions /\ [][NextOptions]_vars

(***************************************************************************)
(* C21.  A submitted scan interval is stored exactly when it is between 10 *)
(* and 3600: the options created are the previous options with only        *)
(* scan_interval replaced; otherwise nothing is created, the options stay, *)
(* and the form is shown with the error invalid_scan_interval.  A setup    *)
(* uses the stored scan_interval, or 60 seconds when none is stored.       *)
(***************************************************************************)
C21_ScanIntervalStoredIffInRange ==
    [][/\ optflow'.submits # optflow.submits =>
            LET sub == optflow'.last
            IN  /\ sub.before = optflow.options
                /\ (sub.outcome = "created") <=> (10 <= sub.value /\ sub.value <= 3600)
                /\ sub.outcome = "created" =>
                       /\ optflow'.pc = "created"
                       /\ sub.data.other = sub.before.other
                       /\ sub.data.scan_interval = [has |-> TRUE, seconds |-> sub.value]
                       /\ optflow'.options = sub.data
                /\ sub.outcome # "created" =>
                       /\ optflow'.pc = "form" /\ sub.outcome = "form"
                       /\ sub.errors = "invalid_scan_interval"
                       /\ optflow'.options = optflow.options
       /\ optflow'.interval # optflow.interval =>
            optflow'.interval =
                {IF optflow.options.scan_interval.has
                 THEN optflow.options.scan_interval.seconds ELSE 60}]_vars

\* the upper limit was submitted over a stored interval, next to another
\* option, and a setup then used it
C21_Witness ==
    /\ optflow.pc = "created"
    /\ optflow.last.value = 3600
    /\ optflow.last.before = [scan_interval |-> [has |-> TRUE, seconds |-> 10], other |-> TRUE]
    /\ optflow.options = [scan_interval |-> [has |-> TRUE, seconds |-> 3600], other |-> TRUE]
    /\ optflow.interval = {3600}

(***************************************************************************)
(* device_tracker.py: a ThreeDTrackingVehicleTracker following the         *)
(* snapshots of its coordinator.  SpecTracker draws the snapshots.         *)
(***************************************************************************)
MaxSnapshotUnits == 2
MaxTrackerUpdates == 2

\* the units of a snapshot: Position is absent, empty, or a position whose
\* Latitude and Longitude are those of place 1 or 2 (place 0: the keys are absent)
SnapshotUnits ==
    [Uid : {1, 2}, Position : {"absent", "empty"}, place : {0}]
        \cup [Uid : {1, 2}, Position : {"dict"}, place : {0, 1, 2}]

Snapshots == UNION {[1..n -> SnapshotUnits] : n \in 0..MaxSnapshotUnits}

\* lines 99-113: self._latitude and self._longitude afterwards
UpdateFromUnitData(unit_data) ==
    IF unit_data.Position = "dict"
    THEN IF unit_data.place = 0 THEN {} ELSE {unit_data.place}
    ELSE {}

\* lines 129-132: the indices of the units with the tracker's Uid
UnitsOf(data, uid) == {i \in 1..Len(data) : data[i].Uid = uid}

\* lines 44-62: the tracker of unit 1 is created from the snapshot of the setup
TrackerStart ==
    \E unit_data \in {u \in SnapshotUnits : u.Uid = 1} :
        tracker = [TrackerIdle EXCEPT !.pc = "added", !.uid = 1, !.data = <<unit_data>>,
                                      !.found = TRUE, !.at = UpdateFromUnitData(unit_data)]

\* lines 116-145: the coordinator delivers a snapshot and calls the tracker
HandleCoordinatorUpdate(data) ==
    /\ tracker.pc = "added"
    /\ tracker.updates < MaxTrackerUpdates
    /\ LET mine == UnitsOf(data, tracker.uid)
           first == CHOOSE i \in mine : \A j \in mine : i <= j
       IN  tracker' = [tracker EXCEPT
               !.data = data, !.updates = @ + 1, !.found = mine # {},
               !.at = IF mine # {} THEN UpdateFromUnitData(data[first]) ELSE @]
    /\ UNCHANGED <<coreVars, lookup, indicator, g4s, io, flow, login, optflow, sensors, dynsensor>>

InitTracker ==
    /\ ClientStart(FALSE) /\ lookup = LookupIdle /\ indicator = IndicatorIdle
    /\ g4s = G4SIdle /\ io = IoIdle /\ flow = FlowIdle /\ login = LoginIdle
    /\ optflow = OptFlowIdle /\ TrackerStart /\ sensors = BinarySensorsIdle
    /\ dynsensor = DynamicSensorIdle

NextTracker == \E data \in Snapshots : HandleCoordinatorUpdate(data)

SpecTracker == InitTracker /\ [][NextTracker]_vars

(***************************************************************************)
(* C22.  After a coordinator update whose snapshot does not contain the    *)
(* tracker's unit, the tracker reports no latitude and longitude.          *)
(***************************************************************************)
C22_MissingUnitClearsPosition ==
    (tracker.pc = "added" /\ tracker.updates > 0 /\ UnitsOf(tracker.data, tracker.uid) = {})
        => tracker.at = {}

(***************************************************************************)
(* binary_sensor.py: the binary sensors created for the InputOutputs list  *)
(* of one unit, and their coordinator updates.  SpecBinarySensors draws    *)
(* the list of the setup and the Active flags of the later snapshots.      *)
(***************************************************************************)
MaxIoItems == 3

\* the items of the list at setup: one without SystemName, and items of system
\* "a" whose display names give the keys a_a, a_s (three ways) and a_s_1
IoListItems ==
    [SystemName : {Field(<<"a">>)},
     Description : {NoField, Field(<<"s">>)},
     UserDescription : {Field(<<>>), Field(<<"S">>), Field(<<"s"," ","1">>)},
     Active : {"False"}]
    \cup {[SystemName |-> Field(<<>>), Description |-> NoField,
           UserDescription |-> Field(<<"S">>), Active |-> "False"]}

IoLists == UNION {[1..n -> IoListItems] : n \in 0..MaxIoItems}

\* homeassistant.util.slugify: lower case, every run of other characters
\* becomes one "_", no "_" at either end, "unknown" for an empty result
HaSlugify(text) ==
    LET RECURSIVE Runs(_)
        Runs(s) ==
            IF s = <<>> THEN s
            ELSE LET c == IF Head(s) \in Whitespace THEN "_" ELSE LowerChar(Head(s))
                     rest == Runs(Tail(s))
                 IN  IF c = "_" /\ rest # <<>> /\ Head(rest) = "_" THEN rest
                     ELSE <<c>> \o rest
        RECURSIVE Trim(_)
        Trim(s) ==
            IF s = <<>> THEN s
            ELSE IF Head(s) = "_" THEN Trim(Tail(s))
            ELSE IF s[Len(s)] = "_" THEN Trim(SubSeq(s, 1, Len(s) - 1))
            ELSE s
        slug == Trim(Runs(text))
    IN  IF slug = <<>> THEN <<"u","n","k","n","o","w","n">> ELSE slug

\* str(counter)
RECURSIVE PyStrOfInt(_)
PyStrOfInt(n) ==
    LET digit == <<"0","1","2","3","4","5","6","7","8","9">>[(n % 10) + 1]
    IN  IF n < 10 THEN <<digit>> ELSE PyStrOfInt(n \div 10) \o <<digit>>

\* the same, with the suffixed key not tested again
RECURSIVE UniqueKeyTestedOnce(_, _, _)
UniqueKeyTestedOnce(base, used, counter) ==
    IF base \in used THEN base \o <<"_">> \o PyStrOfInt(counter + 1) ELSE base

\* lines 70-79: the loop, entered with the given counter
RECURSIVE UniqueKey(_, _, _)
UniqueKey(base, used, counter) ==
    LET unique_key_part ==
            IF counter = 0 THEN base ELSE base \o <<"_">> \o PyStrOfInt(counter)
    IN  IF unique_key_part \in used THEN UniqueKey(base, used, counter + 1)
        ELSE unique_key_part

\* lines 50-95: the loop over input_outputs from its index-th item on, with
\* generated_unique_suffixes_for_unit = used
RECURSIVE SetupEntities(_, _, _)
SetupEntities(input_outputs, index, used) ==
    IF index > Len(input_outputs) THEN <<>>
    ELSE LET io_item == input_outputs[index]
             system_name == TextOf(io_item.SystemName)
             base == HaSlugify(system_name) \o <<"_">> \o HaSlugify(DisplayName(io_item))
             key == UniqueKey(base, used, 0)
         IN  IF system_name = <<>> THEN SetupEntities(input_outputs, index + 1, used)
             ELSE <<[index |-> index,
                     io_system_name |-> io_item.SystemName,
                     io_description |-> io_item.Description,
                     io_user_description |-> io_item.UserDescription,
                     base |-> base, unique_io_key |-> key,
                     is_on |-> io_item.Active, available |-> TRUE]>>
                  \o SetupEntities(input_outputs, index + 1, used \cup {key})

\* lines 153-166: the index of the item found for the entity, 0 for None
FindCurrentIoItem(entity, input_outputs) ==
    LET matching ==
            {i \in 1..Len(input_outputs) :
                 /\ input_outputs[i].SystemName = entity.io_system_name
                 /\ input_outputs[i].Description = entity.io_description
                 /\ input_outputs[i].UserDescription = entity.io_user_description}
    IN  IF matching = {} THEN 0 ELSE CHOOSE i \in matching : \A j \in matching : i <= j

\* lines 168-188: _handle_coordinator_update of one entity
UpdateSensorState(entity, input_outputs) ==
    LET found == FindCurrentIoItem(entity, input_outputs)
    IN  IF found = 0 THEN [entity EXCEPT !.is_on = None, !.available = FALSE]
        ELSE [entity EXCEPT !.is_on = input_outputs[found].Active, !.available = TRUE]

BinarySensorsStart ==
    \E input_outputs \in IoLists :
        sensors = [BinarySensorsIdle EXCEPT
                       !.pc = "setup", !.setup = input_outputs, !.data = input_outputs]

\* lines 23-95: async_setup_entry for the unit
SetupBinarySensors ==
    /\ sensors.pc = "setup"
    /\ sensors' = [sensors EXCEPT !.pc = "added",
                                  !.entities = SetupEntities(sensors.setup, 1, {})]
    /\ UNCHANGED <<coreVars, lookup, indicator, g4s, io, flow, login, optflow, tracker, dynsensor>>

\* a coordinator update, handled by every entity (lines 183-188): the snapshot
\* has the list of the setup with the items at the indices in active being
\* Active, or (listed false) no InputOutputs at all
UpdateBinarySensors(active, listed) ==
    /\ sensors.pc = "added"
    /\ active \subseteq 1..Len(sensors.setup)
    /\ listed \/ active = {}
    /\ LET input_outputs ==
               IF listed
               THEN [i \in 1..Len(sensors.setup) |->
                        [sensors.setup[i] EXCEPT
                             !.Active = IF i \in active THEN "True" ELSE "False"]]
               ELSE <<>>
       IN  sensors' = [sensors EXCEPT
               !.data = input_outputs, !.updated = TRUE,
               !.entities = [e \in 1..Len(@) |-> UpdateSensorState(@[e], input_outputs)]]
    /\ UNCHANGED <<coreVars, lookup, indicator, g4s, io, flow, login, optflow, tracker, dynsensor>>

InitBinarySensors ==
    /\ ClientStart(FALSE) /\ lookup = LookupIdle /\ indicator = IndicatorIdle
    /\ g4s = G4SIdle /\ io = IoIdle /\ flow = FlowIdle /\ login = LoginIdle
    /\ optflow = OptFlowIdle /\ tracker = TrackerIdle /\ BinarySensorsStart
    /\ dynsensor = DynamicSensorIdle

NextBinarySensors ==
    \/ SetupBinarySensors
    \/ \E active \in SUBSET (1..MaxIoItems), listed \in BOOLEAN :
           UpdateBinarySensors(active, listed)

SpecBinarySensors == InitBinarySensors /\ [][NextBinarySensors]_vars

(***************************************************************************)
(* C26.  After a coordinator update whose snapshot has the InputOutputs    *)
(* list of the setup, every binary sensor's is_on is the Active flag of    *)
(* the item it was created from.                                           *)
(***************************************************************************)
C26_IsOnFollowsOwnItem ==
    (sensors.updated /\ sensors.data # <<>>)
        => \A e \in 1..Len(sensors.entities) :
               sensors.entities[e].is_on = sensors.data[sensors.entities[e].index].Active

(***************************************************************************)
(* C27.  The unique keys, and so the unique ids, of the binary sensors     *)
(* created for a unit in one setup are pairwise distinct.                  *)
(***************************************************************************)
C27_UniqueIdsDistinct ==
    sensors.pc = "added" =>
    \A e1, e2 \in 1..Len(sensors.entities) :
        e1 # e2 => sensors.entities[e1].unique_io_key # sensors.entities[e2].unique_io_key

\* two items with the key a_s, the second suffixed to a_s_1, and then an item
\* whose own key is a_s_1
C27_Witness ==
    /\ sensors.pc = "added"
    /\ Len(sensors.entities) = 3
    /\ sensors.entities[1].base = sensors.entities[2].base
    /\ sensors.entities[2].unique_io_key # sensors.entities[2].base
    /\ sensors.entities[3].base = sensors.entities[2].unique_io_key
    /\ sensors.entities[3].unique_io_key = <<"a","_","s","_","1","_","1">>

(***************************************************************************)
(* sensor.py: a ThreeDTrackingDynamicSensor, its unit of measurement and   *)
(* its coordinator updates.  SpecDynamicSensor draws the sensor type and   *)
(* the readings.                                                           *)
(***************************************************************************)
MaxSensorUpdates == 2

\* const.py SENSOR_READING_TYPE_MAP over DEFAULT_SENSOR_READING_TYPE, for the
\* sensor types drawn: final_props of sensor.py lines 209-218
FinalProps(sensor_type_key) ==
    CASE sensor_type_key = "External Battery" ->
            [device_class |-> "VOLTAGE", native_unit_of_measurement |-> Field(<<"V">>)]
      [] sensor_type_key = "Humidity" ->
            [device_class |-> "HUMIDITY", native_unit_of_measurement |-> Field(<<"%">>)]
      [] OTHER -> [device_class |-> None, native_unit_of_measurement |-> NoField]

SensorTypes == {"External Battery", "Humidity", "Satellite Count", "Fuel"}

\* what _find_current_sensor_reading returns: None (found false) or a reading
\* with a numeric or other Value and with or without a MeasurementSign
Readings ==
    {DynamicSensorIdle.reading}
        \cup [found : {TRUE}, Value : {"num", "text"},
              MeasurementSign : {NoField, Field(<<>>), Field(<<"V">>), Field(<<"K","p","h">>),
                                 Field(<<"L">>)}]

\* the same, without the test of line 271
UnitAfterReadingUnguarded(unit, device_class, reading) ==
    LET api_unit == TextOf(reading.MeasurementSign)
    IN  IF api_unit # <<>> THEN Field(api_unit) ELSE unit

\* lines 270-289: _attr_native_unit_of_measurement after a reading
\* (the degree sign is written U+00B0)
UnitAfterReading(unit, device_class, reading) ==
    LET api_unit == TextOf(reading.MeasurementSign)
        lower == StrLower(api_unit)
    IN  IF unit.has \/ api_unit = <<>> THEN unit
        ELSE IF device_class = "VOLTAGE" /\ lower = <<"v">> THEN Field(<<"V">>)
        ELSE IF device_class = "SPEED" /\ lower = <<"k","p","h">>
        THEN Field(<<"k","m","/","h">>)
        ELSE IF device_class = "SPEED" /\ lower = <<"m","p","h">>
        THEN Field(<<"m","p","h">>)
        ELSE IF /\ device_class = "TEMPERATURE"
                /\ lower \in {<<"c">>, <<"U+00B0","c">>, <<"c","e","l","s","i","u","s">>}
        THEN Field(<<"U+00B0","C">>)
        ELSE IF /\ device_class = "TEMPERATURE"
                /\ lower \in {<<"f">>, <<"U+00B0","f">>,
                              <<"f","a","h","r","e","n","h","e","i","t">>}
        THEN Field(<<"U+00B0","F">>)
        ELSE Field(api_unit)

\* lines 251-292: _update_sensor_value
UpdateSensorValue(sensor, reading) ==
    IF ~reading.found
    THEN [sensor EXCEPT !.reading = reading, !.value = None, !.available = FALSE]
    ELSE [sensor EXCEPT
              !.reading = reading, !.available = TRUE,
              !.value = IF reading.Value = "num" THEN "number" ELSE "str",
              !.unit = UnitAfterReading(@, sensor.device_class, reading)]

\* the sensor is about to be created from a reading of the setup snapshot
DynamicSensorStart ==
    \E sensor_type_key \in SensorTypes, reading \in {r \in Readings : r.found} :
        dynsensor = [DynamicSensorIdle EXCEPT !.pc = "new", !.sensor_type = sensor_type_key,
                                              !.reading = reading]

\* lines 183-234: __init__
ConstructDynamicSensor ==
    /\ dynsensor.pc = "new"
    /\ LET final_props == FinalProps(dynsensor.sensor_type)
       IN  dynsensor' = UpdateSensorValue(
               [dynsensor EXCEPT !.pc = "added",
                                 !.device_class = final_props.device_class,
                                 !.unit = final_props.native_unit_of_measurement],
               dynsensor.reading)
    /\ UNCHANGED <<coreVars, lookup, indicator, g4s, io, flow, login, optflow, tracker, sensors>>

\* lines 294-299: _handle_coordinator_update, with what
\* _find_current_sensor_reading returns
HandleSensorUpdate(reading) ==
    /\ dynsensor.pc = "added"
    /\ dynsensor.updates < MaxSensorUpdates
    /\ dynsensor' = [UpdateSensorValue(dynsensor, reading) EXCEPT !.updates = @ + 1]
    /\ UNCHANGED <<coreVars, lookup, indicator, g4s, io, flow, login, optflow, tracker, sensors>>

InitDynamicSensor ==
    /\ ClientStart(FALSE) /\ lookup = LookupIdle /\ indicator = IndicatorIdle
    /\ g4s = G4SIdle /\ io = IoIdle /\ flow = FlowIdle /\ login = LoginIdle
    /\ optflow = OptFlowIdle /\ tracker = TrackerIdle /\ sensors = BinarySensorsIdle
    /\ DynamicSensorStart

NextDynamicSensor ==
    \/ ConstructDynamicSensor
    \/ \E reading \in Readings : HandleSensorUpdate(reading)

SpecDynamicSensor == InitDynamicSensor /\ [][NextDynamicSensor]_vars

(***************************************************************************)
(* C28.  Once the native unit of measurement of a dynamic sensor is not    *)
(* None, no coordinator update changes it.                                 *)
(***************************************************************************)
C28_UnitOfMeasurementIsKept ==
    [][(dynsensor.pc = "added" /\ dynsensor.unit.has) => dynsensor'.unit = dynsensor.unit]_vars

\* the unit came from the sign Kph of the reading at construction; the
\* second update found a reading with the sign L
C28_Witness ==
    /\ dynsensor.pc = "added" /\ dynsensor.updates = 2
    /\ dynsensor.device_class = None
    /\ dynsensor.unit = Field(<<"K","p","h">>)
    /\ dynsensor.reading.found /\ dynsensor.reading.MeasurementSign = Field(<<"L">>)

====
